---- MODULE Spec2Model ----
(***************************************************************************)
(* Engine lifecycle of xjog: several XJog instances sharing one database.  *)
(* The database tables are modelled as sets of rows and every persistence  *)
(* call as the SQL statement it issues; every engine procedure is split at *)
(* its awaits.                                                             *)
(***************************************************************************)
EXTENDS Naturals, Integers, FiniteSets, Sequences, TLC

\* ------------------------------------------------------------------ bounds
\* User calls (createChart, sendEvent, shutdown) made in one behaviour.
MaxOps == 3
\* Rows ever inserted into "deferredEvents" (the serial id stops there).
MaxDeferred == 2

\* startup.adoptionFrequency and startup.gracePeriod in units of 10 ms: the
\* smallest adoptionFrequency, and a gracePeriod above 2.5 x adoptionFrequency.
AdoptionFrequency == 1
GracePeriod == 3
\* The delay of the machine's delayed send, in ms.
TickDelay == 85

\* deferredEvents.batchSize, interval and lookAhead in ms.
BatchSize == 2
Interval == 1000
LookAhead == 1000
MsPerSecond == 1000
\* Steps of 500 ms the clock makes.
MaxTicks == 3
\* Journal entries that are recorded.
MaxEntries == 3
\* The cacheSize option of the machine, and the ids of its charts.
cacheSize == 2
CachedCharts == {"c1", "c2", "c3"}
\* Number.MAX_SAFE_INTEGER, the nextReadAt of a manager that has no read
\* scheduled: any value above every time and delay here.
MAX_SAFE_INTEGER == 1000000

Engines == {"A", "B"}
Charts == {"c1", "c2"}
Events == {"GO", "TICK", "FINISH"}
\* The events that come from outside; TICK is what the machine sends itself.
UserEvents == {"GO", "FINISH"}
\* Ids of the machines a user registers besides the one the charts run.
MachineIds == {"late"}
NoOne == "null"

\* Engine ids and chart ids are interchangeable, so the engines are started
\* and the charts are created in one order: A before B, c1 before c2.
FirstEngine == "A"
FirstChart == "c1"

\* ------------------------------------------------- the registered machine
\* The machine the engines run: idle -GO-> working -FINISH-> idle; working
\* invokes one activity and, on entry, sends itself a delayed TICK, which it
\* handles without leaving the state.  A State is the evaluator's snapshot:
\* its value, the action list of the transition that produced it, and
\* whether the invoked activity is active in it.
States == {"idle0", "workE", "workP", "idleS"}

Value(s) == IF s \in {"workE", "workP"} THEN "working" ELSE "idle"

Actions(s) ==
  CASE s = "workE" -> <<"start", "send">>
    [] s = "idleS" -> <<"stop">>
    [] OTHER -> <<>>

ActivityActive(s) == Value(s) = "working"

InitialState == "idle0"

transition(s, ev) ==
  IF Value(s) = "idle"
  THEN IF ev = "GO" THEN "workE" ELSE "idle0"
  ELSE IF ev = "FINISH" THEN "idleS" ELSE "workP"

\* --------------------------------------------------------------- variables
VARIABLES
  \* the database
  instances,    \* instanceId -> "absent" | "alive" | "dying"
  charts,       \* rows [ref, ownerId, paused, state]
  ongoing,      \* rows of "ongoingActivities": the chart refs that have one
  deferred,     \* rows [id, ref, event, lock, fromAction, delay]
  nextId,       \* the serial of "deferredEvents"
  \* one engine
  startPc,      \* XJog.start: "init" | "firstPass" | "schedule" | "listen" | "done"
  started,      \* XJogStartupManager.isStarted
  ready,        \* XJogStartupManager.isReady
  dying,        \* XJog.isDying
  halted,       \* 'halt' has been emitted
  adoptPc,      \* adoptCharts: "off" | "select" | "update" | "count" | "start" | "decide" | "sleep" | "done"
  adopted,      \* adoptedChartIdentifiers of the running pass
  todo,         \* refs the running pass still has to update or start
  pausedCount,  \* pausedChartCount of the running pass
  grace,        \* startupGracePeriodTimer: -1 unarmed, else time left
  adoptT,       \* adoptionLoopTimer: -1 unarmed, else time left
  forcePc,      \* forciblyOverThrowStubbornInstances: "off" | "start"
  forceTodo,    \* refs it still has to start
  shutPc,       \* XJog.shutdown: "off" | "release" | "stop" | "count" | "wait" | "done"
  deathNote,    \* onDeathNote: "off" | "polling" | "cancelled" | "sawDying"
  acts,         \* XJogActivityManager.ongoingActivities: chart refs
  cache,        \* XJogMachine.chartCacheStore: ref -> State | "none"
  sched,        \* XJogDeferredEventManager.deferredEvents: the rows taken
  readArmed,    \* deferredEventHandlerTimer is armed
  \* the environment and the observers of the claims
  ops,          \* user calls made so far
  scheduled,    \* per chart: send actions executed by transitions
  delivered,    \* per chart: deliveries of the events those actions deferred
  quiet,        \* per engine: time since the grace period was started by start or by a non-empty pass
  noteCalls,    \* per engine: invocations of the onDeathNote callback
  registeredMachines, \* per engine: ids of the machines registered later on
  \* XJogDeferredEventManager in detail: the table with its times, and each
  \* engine's manager
  clock,        \* Date.now() and transaction_timestamp(), in ms
  dTable,       \* rows [id, ref, eventId, timestamp, delay, due, lock]
  dSerial,      \* the serial of "deferredEvents"
  dList,        \* deferredEvents: the list of scheduled rows
  dTimers,      \* armed setTimeout callbacks of schedule: [row, at, handle]
  dMap,         \* deferredEventTimers: row id -> handle, 0 for none
  dHandle,      \* handles given out by setTimeout so far
  nextReadAt,   \* nextReadAt
  readTimer,    \* deferredEventHandlerTimer: -1 for null, else when it fires
  readPc,       \* scheduleUpcoming: "idle" | "update"
  readIds,      \* ids the batch statement's sub-select has chosen
  dDying,       \* XJog.isDying
  dStarted,     \* XJog.start has called scheduleUpcoming
  dOps,         \* calls of defer, cancel, cancelAllForChart and shutdown
  dDelivered,   \* row id -> deliveries of its event
  dCancelled,   \* row ids whose eventId a completed cancel was called with
  dCharts,      \* refs of the rows of "charts"
  dExtIds,      \* refs that have a row in "externalIdentifiers"
  dDestroy,     \* per chart: where destroyChart is
  \* One chart of one engine and the callers that send to it
  chRow,        \* the state in the chart's row
  chOwned,      \* the row's ownerId is this engine
  chDying,      \* XJog.dying
  chCache,      \* chartCacheStore[chartId]: a chart object, or none
  chState,      \* per chart object: this.state, "none" before it is loaded
  chMutex,      \* per chart object: the caller that holds chartMutex
  chPc,         \* per caller: where it is in getChart and send
  chObj,        \* per caller: the chart object getChart gave it
  chEv,         \* per caller: the event it sends
  chOld,        \* per caller: stateBeforeTransition
  chHeld,       \* per caller: acquireMutex gave it the mutex
  chTimedOut,   \* per caller: its chartMutex.acquire() timed out
  chRet,        \* per caller: what send returned or threw
  chChanges,    \* the changes passed to changeSubject.next
  chJournal,    \* the changes the journal writer's hook has recorded
  \* The journal tables of one chart, its recorders and one observer
  jSerial,      \* the next id of "journalEntries"
  jFull,        \* the id in the chart's row of "fullJournalStates", 0 for no row
  jPc,          \* per recorder: where its record() is
  jId,          \* per recorder: the id insertEntry returned
  jNotes,       \* notifications on 'new-journal-entry' not yet handled
  jPointer,     \* journalEntryIdPointer
  jFlight,      \* results of queryEntries whose then() has not run yet
  jSeen,        \* ids passed to newJournalEntriesSubject.next, in order
  \* The chart cache of one XJogMachine
  chartCacheKeys, \* the ids in chartCacheKeys, a Set, in insertion order
  cacheMutex,   \* cacheMutex is held
  cachePc,      \* "idle" | "waiting": a refreshCache awaits chart.wait()
  locked,       \* the charts whose chartMutex is locked
  refreshed,    \* the chart of the latest refreshCache call
  \* External identifiers, and the options of the constructor
  xTable,       \* the rows of the externalId table
  xDrops,       \* DELETE statements of dropExternalId that have not run yet
  xCall,        \* the latest call that returned, and its result
  optIn,        \* the options the user passed to the latest resolve call
  optOut        \* the options it resolved to

dbVars == <<instances, charts, ongoing, deferred, nextId>>
startVars == <<startPc, started, ready>>
adoptVars == <<adoptPc, adopted, todo, pausedCount>>
timerVars == <<grace, adoptT>>
forceVars == <<forcePc, forceTodo>>
memVars == <<acts, cache, sched, readArmed>>
obsVars == <<scheduled, delivered, quiet, noteCalls>>

\* The engine lifecycle, and the deferred event manager in detail.
lifeVars == <<instances, charts, ongoing, deferred, nextId, startPc, started,
              ready, dying, halted, adoptPc, adopted, todo, pausedCount, grace,
              adoptT, forcePc, forceTodo, shutPc, deathNote, acts, cache, sched,
              readArmed, ops, scheduled, delivered, quiet, noteCalls,
              registeredMachines>>
destroyVars == <<dCharts, dExtIds, dDestroy>>
demVars == <<clock, dTable, dSerial, dList, dTimers, dMap, dHandle, nextReadAt,
             readTimer, readPc, readIds, dDying, dStarted, dOps, dDelivered,
             dCancelled, destroyVars>>
chVars == <<chRow, chOwned, chDying, chCache, chState, chMutex, chPc, chObj,
            chEv, chOld, chHeld, chTimedOut, chRet, chChanges, chJournal>>
journalVars == <<jSerial, jFull, jPc, jId, jNotes, jPointer, jFlight, jSeen>>
callVars == <<xTable, xDrops, xCall, optIn, optOut>>
sideVars == <<journalVars, chartCacheKeys, cacheMutex, cachePc, locked,
              refreshed, callVars>>
auxVars == <<demVars, chVars, registeredMachines, sideVars>>

vars == <<lifeVars, demVars, chVars, sideVars>>

\* ------------------------------------------------- PostgresPersistenceAdapter
HasRow(rows, c) == \E r \in rows : r.ref = c

RowOf(rows, c) == CHOOSE r \in rows : r.ref = c

\* insertChart on a table without its primary key.
insertChartNoKey(rows, e, c, s) ==
  rows \cup {[ref |-> c, ownerId |-> e, paused |-> FALSE, state |-> s]}

\* INSERT INTO charts: rejected by PRIMARY KEY (machineId, chartId).
insertChart(rows, e, c, s) ==
  IF HasRow(rows, c)
  THEN rows
  ELSE rows \cup {[ref |-> c, ownerId |-> e, paused |-> FALSE, state |-> s]}

markAllInstancesDying(inst) ==
  [i \in Engines |-> IF inst[i] = "absent" THEN "absent" ELSE "dying"]

markAllChartsPaused(rows) == {[r EXCEPT !.paused = TRUE] : r \in rows}

insertInstance(inst, e) == [inst EXCEPT ![e] = "alive"]

\* The DELETE is commented out in the adapter.
deleteInstance(inst, e) == inst

countAliveInstances(inst) == Cardinality({i \in Engines : inst[i] = "alive"})

countPausedCharts(rows) == Cardinality({r \in rows : r.paused})

getPausedChartIds(rows) == {r.ref : r \in {x \in rows : x.paused}}

getPausedChartWithNoOngoingActivitiesIds(rows, og) ==
  {r.ref : r \in {x \in rows : x.paused /\ x.ref \notin og}}

countOwnCharts(rows, e) == Cardinality({r \in rows : r.ownerId = e})

\* DELETE FROM "ongoingActivities" WHERE NOT EXISTS (a paused chart of that ref)
deleteOngoingActivitiesForPausedCharts(rows, og) ==
  og \ {c \in og : ~(\E r \in rows : r.ref = c /\ r.paused)}

changeOwnerAndResumePausedCharts(rows, e) ==
  {IF r.paused THEN [r EXCEPT !.paused = FALSE, !.ownerId = e] ELSE r : r \in rows}

\* One UPDATE of changeOwnerAndResumeCharts' loop: WHERE machineId, chartId only.
changeOwnerAndResumeChart(rows, e, c) ==
  {IF r.ref = c THEN [r EXCEPT !.paused = FALSE, !.ownerId = e] ELSE r : r \in rows}

\* UPDATE "charts" SET "state" WHERE machineId, chartId only.
updateChartState(rows, c, s) ==
  {IF r.ref = c THEN [r EXCEPT !.state = s] ELSE r : r \in rows}

\* INSERT ... ON CONFLICT DO NOTHING
registerActivityRow(og, c) == og \cup {c}

unregisterActivityRow(og, c) == og \ {c}

isActivityRegistered(og, c) == c \in og

insertDeferredEvent(rows, id, c, ev, fa, delay) ==
  rows \cup {[id |-> id, ref |-> c, event |-> ev, lock |-> NoOne,
              fromAction |-> fa, delay |-> delay]}

deleteDeferredEvent(rows, id) == {r \in rows : r.id # id}

\* UPDATE "deferredEvents" SET "lock"=NULL, with no WHERE.
unmarkAllDeferredEventsForProcessing(rows) == {[r EXCEPT !.lock = NoOne] : r \in rows}

\* The batch read: every unlocked row (all are within lookAhead, and the
\* batch size is above MaxDeferred) gets lock = instanceId.
readDeferredEventRowBatch(rows, e) ==
  {IF r.lock = NoOne THEN [r EXCEPT !.lock = e] ELSE r : r \in rows}

\* ------------------------------------------------- PersistenceAdapter
overthrowInstances(inst, e) == insertInstance(markAllInstancesDying(inst), e)

\* forciblyAdoptCharts, one transaction: <<returned refs, charts, ongoingActivities>>
forciblyAdoptCharts(rows, og, e) ==
  <<getPausedChartIds(rows),
    changeOwnerAndResumePausedCharts(rows, e),
    deleteOngoingActivitiesForPausedCharts(rows, og)>>

\* ------------------------------------------------- XJogChart
HasAction(s, a) == \E i \in 1..Len(Actions(s)) : Actions(s)[i] = a

CanDefer == nextId <= MaxDeferred

\* XJogActivityManager.stopActivity takes activityMutex and then calls
\* stopAndUnregisteredActivity, which takes the same mutex: with the activity
\* in memory the second acquire times out and the call throws.
stopActivityThrows(ac, c) == c \in ac

\* invokeService: stop first when the database has the activity, then spawn
\* and register in memory and in the database.
invokeService(og, ac, c) ==
  IF isActivityRegistered(og, c) /\ stopActivityThrows(ac, c)
  THEN [thrown |-> TRUE, og |-> og, ac |-> ac]
  ELSE [thrown |-> FALSE, og |-> registerActivityRow(og, c), ac |-> ac \cup {c}]

\* executeActions over state.actions, in order; an action that throws ends
\* the loop.  The result is the tables and the activity map afterwards.
executeActions(c, s, og, ac, df, nid) ==
  LET started1 == IF HasAction(s, "start") /\ ActivityActive(s)
                  THEN invokeService(og, ac, c)
                  ELSE [thrown |-> FALSE, og |-> og, ac |-> ac]
      stopThrows == HasAction(s, "stop") /\ stopActivityThrows(ac, c)
      sends == HasAction(s, "send") /\ ~started1.thrown /\ ~stopThrows
  IN [og |-> started1.og,
      ac |-> started1.ac,
      df |-> IF sends THEN insertDeferredEvent(df, nid, c, "TICK", TRUE, TickDelay) ELSE df,
      nid |-> IF sends THEN nid + 1 ELSE nid,
      sent |-> sends,
      thrown |-> started1.thrown \/ stopThrows]

\* XJogMachine.getChart: the cached chart, else the row's state, else nothing.
getChart(e, c) ==
  IF cache[e][c] # "none" THEN cache[e][c]
  ELSE IF HasRow(charts, c) THEN RowOf(charts, c).state
  ELSE "none"

\* XJogChart.send without its test of stopping and dying.
sendWhileDying(e, c, ev, fa, df) ==
  LET cs == getChart(e, c)
      ns == transition(cs, ev)
      ex == executeActions(c, ns, ongoing, acts[e], df, nextId)
  IN IF cs = "none"
     THEN [charts |-> charts, chart |-> "none", og |-> ongoing, ac |-> acts[e],
           df |-> df, nid |-> nextId, armed |-> readArmed[e],
           sent |-> FALSE, moved |-> FALSE, ret |-> "null"]
     ELSE IF FALSE
     THEN [charts |-> charts, chart |-> cs, og |-> ongoing, ac |-> acts[e],
           df |-> insertDeferredEvent(df, nextId, c, ev, fa, 0), nid |-> nextId + 1,
           armed |-> TRUE, sent |-> FALSE, moved |-> FALSE, ret |-> "null"]
     ELSE [charts |-> updateChartState(charts, c, ns), chart |-> ns,
           og |-> ex.og, ac |-> ex.ac, df |-> ex.df, nid |-> ex.nid,
           armed |-> readArmed[e] \/ ex.sent, sent |-> ex.sent, moved |-> TRUE,
           ret |-> IF ex.thrown THEN "null" ELSE ns]

\* XJog.sendEvent -> XJogChart.send of event ev to chart c on engine e; fa
\* tells that the event comes from a deferred row written by a send action.
\* The result is every table and field the call leaves behind.
send(e, c, ev, fa, df) ==
  LET cs == getChart(e, c)
      ns == transition(cs, ev)
      ex == executeActions(c, ns, ongoing, acts[e], df, nextId)
  IN IF cs = "none"
     THEN [charts |-> charts, chart |-> "none", og |-> ongoing, ac |-> acts[e],
           df |-> df, nid |-> nextId, armed |-> readArmed[e],
           sent |-> FALSE, moved |-> FALSE, ret |-> "null"]
     ELSE IF dying[e]
     THEN [charts |-> charts, chart |-> cs, og |-> ongoing, ac |-> acts[e],
           df |-> insertDeferredEvent(df, nextId, c, ev, fa, 0), nid |-> nextId + 1,
           armed |-> TRUE, sent |-> FALSE, moved |-> FALSE, ret |-> "null"]
     ELSE [charts |-> updateChartState(charts, c, ns), chart |-> ns,
           og |-> ex.og, ac |-> ex.ac, df |-> ex.df, nid |-> ex.nid,
           armed |-> readArmed[e] \/ ex.sent, sent |-> ex.sent, moved |-> TRUE,
           ret |-> IF ex.thrown THEN "null" ELSE ns]

\* ------------------------------------------------- deferred events in detail
\* The values an eventId or a sendId can be, as JavaScript compares them with
\* ===: a string and a number are never equal.  The id of a send action is
\* the name of its event unless the machine gives one.
JsString(x) == "s:" \o x
JsNumber(n) == "n:" \o ToString(n)
EventIds == {JsString("TICK")}
Delays == {500, 1000}

\* make_interval(secs => ms::bigint / 1000): the division is on integers.
makeIntervalSecs(ms) == (ms \div MsPerSecond) * MsPerSecond

\* INSERT INTO "deferredEvents": timestamp, delay and due of the new row.
insertDeferredEventRow(rows, id, c, eventId, delay, now) ==
  rows \cup {[id |-> id, ref |-> c, eventId |-> eventId, timestamp |-> now,
              delay |-> delay, due |-> now + makeIntervalSecs(delay),
              lock |-> NoOne]}

\* ORDER BY "due" ASC, "id" ASC
DueBefore(a, b) == a.due < b.due \/ (a.due = b.due /\ a.id < b.id)

OrderByDue(rows) ==
  CHOOSE q \in [1..Cardinality(rows) -> rows] :
    \A i, j \in 1..Cardinality(rows) : i < j => DueBefore(q[i], q[j])

\* The sub-select of the batch statement: ids of at most batchSize unlocked
\* rows due before now + lookAhead, first due first.
selectBatchIds(rows, now) ==
  LET upcoming == {r \in rows : r.due < now + makeIntervalSecs(LookAhead) /\ r.lock = NoOne}
      q == OrderByDue(upcoming)
  IN {q[i].id : i \in {j \in 1..Len(q) : j <= BatchSize}}

\* The UPDATE of the batch statement on the rows whose id the sub-select
\* chose: the row lock makes it wait for a concurrent writer of the row, and
\* it then updates the row's latest version, on which "id" IN (...) holds
\* again; a row deleted meanwhile is skipped.
updateBatch(rows, ids, e) ==
  {IF r.id \in ids THEN [r EXCEPT !.lock = e] ELSE r : r \in rows}

\* ... RETURNING *, ordered by due and id.
returnedBatch(rows, ids, e) ==
  OrderByDue({[r EXCEPT !.lock = e] : r \in {x \in rows : x.id \in ids}})

\* Array.prototype.findIndex: 0-based, -1 when no element passes.
findIndex(list, Test(_)) ==
  IF \E i \in 1..Len(list) : Test(list[i])
  THEN (CHOOSE i \in 1..Len(list) :
          Test(list[i]) /\ \A j \in 1..(i - 1) : ~Test(list[j])) - 1
  ELSE -1

\* Array.prototype.splice: a negative start counts from the end.
spliceStart(list, start) ==
  IF start < 0
  THEN (IF Len(list) + start < 0 THEN 0 ELSE Len(list) + start)
  ELSE (IF start > Len(list) THEN Len(list) ELSE start)

\* list.splice(start, 0, item)
spliceInsert(list, start, item) ==
  SubSeq(list, 1, spliceStart(list, start)) \o <<item>>
    \o SubSeq(list, spliceStart(list, start) + 1, Len(list))

\* list.splice(start, 1)
spliceRemove(list, start) ==
  SubSeq(list, 1, spliceStart(list, start))
    \o SubSeq(list, spliceStart(list, start) + 2, Len(list))

\* schedule: where the row is put into the list.
scheduleInList(list, r) ==
  spliceInsert(list,
               findIndex(list, LAMBDA x : x.due > r.due \/ (x.due = r.due /\ x.id > r.id)),
               r)

\* schedule: the timer, armed for max(due - now, 0).
scheduleTimer(r, now, h) ==
  [row |-> r, at |-> IF r.due - now < 0 THEN now ELSE r.due, handle |-> h]

DemInit ==
  /\ clock = 0
  /\ dTable = {}
  /\ dSerial = 1
  /\ dList = [e \in Engines |-> <<>>]
  /\ dTimers = [e \in Engines |-> {}]
  /\ dMap = [e \in Engines |-> [i \in 1..(MaxDeferred + 1) |-> 0]]
  /\ dHandle = [e \in Engines |-> 0]
  /\ nextReadAt = [e \in Engines |-> MAX_SAFE_INTEGER]
  /\ readTimer = [e \in Engines |-> -1]
  /\ readPc = [e \in Engines |-> "idle"]
  /\ readIds = [e \in Engines |-> {}]
  /\ dDying = [e \in Engines |-> FALSE]
  /\ dStarted = [e \in Engines |-> FALSE]
  /\ dOps = 0
  /\ dDelivered = [i \in 1..(MaxDeferred + 1) |-> 0]
  /\ dCancelled = {}
  /\ dCharts = Charts
  /\ dExtIds = Charts
  /\ dDestroy = [c \in Charts |-> "none"]

\* ------------------------------------------------- one chart and its callers
\* The callers of getChart and send for one chart on one engine.  A chart
\* object is named after the caller whose getChart loaded it.
Callers == {"k1", "k2", "k3"}

ChInit ==
  /\ chRow = InitialState
  /\ chOwned = TRUE
  /\ chDying = FALSE
  /\ chCache = NoOne
  /\ chState = [o \in Callers |-> "none"]
  /\ chMutex = [o \in Callers |-> NoOne]
  /\ chPc = [k \in Callers |-> "idle"]
  /\ chObj = [k \in Callers |-> NoOne]
  /\ chEv = [k \in Callers |-> "none"]
  /\ chOld = [k \in Callers |-> "none"]
  /\ chHeld = [k \in Callers |-> FALSE]
  /\ chTimedOut = [k \in Callers |-> FALSE]
  /\ chRet = [k \in Callers |-> "none"]
  /\ chChanges = <<>>
  /\ chJournal = <<>>

\* ------------------------------------------------- the journal of one chart
\* The callers of record() for one chart, from one engine or several.
Recorders == {"r1", "r2"}

JournalInit ==
  /\ jSerial = 1
  /\ jFull = 0
  /\ jPc = [r \in Recorders |-> "idle"]
  /\ jId = [r \in Recorders |-> 0]
  /\ jNotes = 0
  /\ jPointer = 0
  /\ jFlight = <<>>
  /\ jSeen = <<>>

\* ------------------------------------------------- initial state
Init ==
  /\ registeredMachines = [e \in Engines |-> {}]
  /\ instances = [e \in Engines |-> "absent"]
  /\ charts = {}
  /\ ongoing = {}
  /\ deferred = {}
  /\ nextId = 1
  /\ startPc = [e \in Engines |-> "init"]
  /\ started = [e \in Engines |-> FALSE]
  /\ ready = [e \in Engines |-> FALSE]
  /\ dying = [e \in Engines |-> FALSE]
  /\ halted = [e \in Engines |-> FALSE]
  /\ adoptPc = [e \in Engines |-> "off"]
  /\ adopted = [e \in Engines |-> {}]
  /\ todo = [e \in Engines |-> {}]
  /\ pausedCount = [e \in Engines |-> 0]
  /\ grace = [e \in Engines |-> -1]
  /\ adoptT = [e \in Engines |-> -1]
  /\ forcePc = [e \in Engines |-> "off"]
  /\ forceTodo = [e \in Engines |-> {}]
  /\ shutPc = [e \in Engines |-> "off"]
  /\ deathNote = [e \in Engines |-> "off"]
  /\ acts = [e \in Engines |-> {}]
  /\ cache = [e \in Engines |-> [c \in Charts |-> "none"]]
  /\ sched = [e \in Engines |-> {}]
  /\ readArmed = [e \in Engines |-> FALSE]
  /\ ops = 0
  /\ scheduled = [c \in Charts |-> 0]
  /\ delivered = [c \in Charts |-> 0]
  /\ quiet = [e \in Engines |-> 0]
  /\ noteCalls = [e \in Engines |-> 0]
  /\ DemInit
  /\ ChInit
  /\ JournalInit
  /\ chartCacheKeys = <<>>
  /\ cacheMutex = FALSE
  /\ cachePc = "idle"
  /\ locked = {}
  /\ refreshed = "none"
  /\ xTable = {}
  /\ xDrops = {}
  /\ xCall = [op |-> "none"]
  /\ optIn = [of |-> "none"]
  /\ optOut = [of |-> "none"]

\* ------------------------------------------------- XJogStartupManager
\* XJog.start -> startupManager.start: overthrowOtherInstances in one
\* transaction, startAdoptionGracePeriod, and the first adoptCharts begins.
Start(e) ==
  /\ startPc[e] = "init"
  /\ instances[e] = "absent"
  /\ e # FirstEngine => startPc[FirstEngine] # "init"
  /\ instances' = overthrowInstances(instances, e)
  /\ charts' = markAllChartsPaused(charts)
  /\ grace' = [grace EXCEPT ![e] = GracePeriod]
  /\ quiet' = [quiet EXCEPT ![e] = 0]
  /\ startPc' = [startPc EXCEPT ![e] = "firstPass"]
  /\ adoptPc' = [adoptPc EXCEPT ![e] = "select"]
  /\ UNCHANGED <<ongoing, deferred, nextId, started, ready, dying, halted,
                 adopted, todo, pausedCount, adoptT, forceVars, shutPc,
                 deathNote, memVars, ops, scheduled, delivered, noteCalls>>
  /\ UNCHANGED auxVars

\* gentlyAdoptCharts, first statement: the select.
GentleSelect(e) ==
  /\ adoptPc[e] = "select"
  /\ adopted' = [adopted EXCEPT ![e] = getPausedChartWithNoOngoingActivitiesIds(charts, ongoing)]
  /\ todo' = [todo EXCEPT ![e] = getPausedChartWithNoOngoingActivitiesIds(charts, ongoing)]
  /\ adoptPc' = [adoptPc EXCEPT ![e] = "update"]
  /\ UNCHANGED <<dbVars, startVars, dying, halted, pausedCount, timerVars,
                 forceVars, shutPc, deathNote, memVars, ops, obsVars>>
  /\ UNCHANGED auxVars

\* gentlyAdoptCharts, second statement: changeOwnerAndResumeCharts, one
\* UPDATE per selected ref.
GentleUpdate(e) ==
  /\ adoptPc[e] = "update"
  /\ IF todo[e] = {}
     THEN /\ adoptPc' = [adoptPc EXCEPT ![e] = "count"]
          /\ UNCHANGED <<charts, todo>>
     ELSE \E c \in todo[e] :
          /\ charts' = changeOwnerAndResumeChart(charts, e, c)
          /\ todo' = [todo EXCEPT ![e] = @ \ {c}]
          /\ adoptPc' = [adoptPc EXCEPT ![e] = IF todo[e] = {c} THEN "count" ELSE "update"]
  /\ UNCHANGED <<instances, ongoing, deferred, nextId, startVars, dying,
                 halted, adopted, pausedCount, timerVars, forceVars, shutPc,
                 deathNote, memVars, ops, obsVars>>
  /\ UNCHANGED auxVars

\* The tail of adoptCharts once the adopted charts are started: with paused
\* charts left the grace period is restarted and the next pass is timed,
\* otherwise the grace period ends and the engine is ready.  The first pass
\* then returns into startupManager.start, which sets isStarted.  The locals
\* adoptedChartIdentifiers and pausedChartCount end with the call.
PassEnds(e, n) ==
  /\ IF n > 0
     THEN /\ grace' = [grace EXCEPT ![e] = GracePeriod]
          /\ adoptT' = [adoptT EXCEPT ![e] = AdoptionFrequency]
          /\ adoptPc' = [adoptPc EXCEPT ![e] = "sleep"]
          /\ quiet' = [quiet EXCEPT ![e] = IF adopted[e] # {} THEN 0 ELSE @]
          /\ ready' = ready
     ELSE /\ grace' = [grace EXCEPT ![e] = -1]
          /\ adoptT' = adoptT
          /\ adoptPc' = [adoptPc EXCEPT ![e] = "done"]
          /\ quiet' = [quiet EXCEPT ![e] = 0]
          /\ ready' = [ready EXCEPT ![e] = TRUE]
  /\ IF startPc[e] = "firstPass"
     THEN /\ started' = [started EXCEPT ![e] = TRUE]
          /\ startPc' = [startPc EXCEPT ![e] = "schedule"]
     ELSE UNCHANGED <<started, startPc>>

\* A pass whose startAdoptedCharts threw: adoptCharts rejects, nothing is
\* re-armed, and a first pass makes start() reject.
PassFails(e) ==
  /\ adoptPc' = [adoptPc EXCEPT ![e] = "failed"]
  /\ startPc' = [startPc EXCEPT ![e] = IF @ = "firstPass" THEN "failed" ELSE @]
  /\ UNCHANGED <<grace, adoptT, quiet, ready, started>>

\* getPausedChartCount, and the branch on adoptedChartIdentifiers.length.
CountPaused(e) ==
  /\ adoptPc[e] = "count"
  /\ IF adopted[e] = {}
     THEN /\ PassEnds(e, countPausedCharts(charts))
          /\ UNCHANGED <<todo, pausedCount>>
     ELSE /\ adoptPc' = [adoptPc EXCEPT ![e] = "start"]
          /\ todo' = [todo EXCEPT ![e] = adopted[e]]
          /\ pausedCount' = [pausedCount EXCEPT ![e] = countPausedCharts(charts)]
          /\ UNCHANGED <<grace, adoptT, quiet, ready, started, startPc>>
  /\ UNCHANGED <<dbVars, dying, halted, adopted, forceVars, shutPc, deathNote,
                 memVars, ops, scheduled, delivered, noteCalls>>
  /\ UNCHANGED auxVars

\* XJogChart.runStep of an adopted chart: getChart, then executeActions on
\* the state it holds, rehydrating.  Nothing is written to the chart row.
runStep(e, c) ==
  LET ex == executeActions(c, getChart(e, c), ongoing, acts[e], deferred, nextId)
  IN /\ ex.sent => CanDefer
     /\ ongoing' = ex.og
     /\ acts' = [acts EXCEPT ![e] = ex.ac]
     /\ deferred' = ex.df
     /\ nextId' = ex.nid
     /\ readArmed' = [readArmed EXCEPT ![e] = @ \/ ex.sent]
     /\ cache' = [cache EXCEPT ![e][c] = getChart(e, c)]

runStepThrows(e, c) ==
  executeActions(c, getChart(e, c), ongoing, acts[e], deferred, nextId).thrown

\* startAdoptedCharts of a gentle pass, one chart per step.
StartAdopted(e, c) ==
  /\ adoptPc[e] = "start"
  /\ c \in todo[e]
  /\ runStep(e, c)
  /\ IF runStepThrows(e, c)
     THEN /\ PassFails(e)
          /\ todo' = [todo EXCEPT ![e] = {}]
     ELSE /\ todo' = [todo EXCEPT ![e] = @ \ {c}]
          /\ IF todo[e] = {c} THEN PassEnds(e, pausedCount[e])
             ELSE UNCHANGED <<adoptPc, grace, adoptT, quiet, ready, started, startPc>>
  /\ IF runStepThrows(e, c) \/ todo[e] = {c}
     THEN /\ adopted' = [adopted EXCEPT ![e] = {}]
          /\ pausedCount' = [pausedCount EXCEPT ![e] = 0]
     ELSE UNCHANGED <<adopted, pausedCount>>
  /\ UNCHANGED <<instances, charts, dying, halted, forceVars, shutPc,
                 deathNote, sched, ops, scheduled, delivered, noteCalls>>
  /\ UNCHANGED auxVars

\* The adoption loop timer fires: adoptCharts runs again.
AdoptTimerFire(e) ==
  /\ adoptT[e] = 0
  /\ adoptT' = [adoptT EXCEPT ![e] = -1]
  /\ adoptPc' = [adoptPc EXCEPT ![e] = "select"]
  /\ UNCHANGED <<dbVars, startVars, dying, halted, adopted, todo, pausedCount,
                 grace, forceVars, shutPc, deathNote, memVars, ops, obsVars>>
  /\ UNCHANGED auxVars

\* The grace period timer fires: forciblyOverThrowStubbornInstances runs
\* forciblyAdoptCharts, one transaction.
GraceExpire(e) ==
  /\ grace[e] = 0
  /\ grace' = [grace EXCEPT ![e] = -1]
  /\ quiet' = [quiet EXCEPT ![e] = 0]
  /\ charts' = forciblyAdoptCharts(charts, ongoing, e)[2]
  /\ ongoing' = forciblyAdoptCharts(charts, ongoing, e)[3]
  /\ forceTodo' = [forceTodo EXCEPT ![e] = @ \cup forciblyAdoptCharts(charts, ongoing, e)[1]]
  /\ IF forceTodo'[e] = {}
     THEN /\ ready' = [ready EXCEPT ![e] = TRUE]
          /\ forcePc' = forcePc
     ELSE /\ ready' = ready
          /\ forcePc' = [forcePc EXCEPT ![e] = "start"]
  /\ UNCHANGED <<instances, deferred, nextId, startPc, started, dying, halted,
                 adoptVars, adoptT, shutPc, deathNote, memVars, ops,
                 scheduled, delivered, noteCalls>>
  /\ UNCHANGED auxVars

\* startAdoptedCharts of the forcible adoption, then signalReadiness.
ForceStart(e, c) ==
  /\ forcePc[e] = "start"
  /\ c \in forceTodo[e]
  /\ runStep(e, c)
  /\ IF runStepThrows(e, c)
     THEN /\ forceTodo' = [forceTodo EXCEPT ![e] = {}]
          /\ forcePc' = [forcePc EXCEPT ![e] = "off"]
          /\ ready' = ready
     ELSE /\ forceTodo' = [forceTodo EXCEPT ![e] = @ \ {c}]
          /\ forcePc' = [forcePc EXCEPT ![e] = IF forceTodo[e] = {c} THEN "off" ELSE "start"]
          /\ ready' = [ready EXCEPT ![e] = @ \/ forceTodo[e] = {c}]
  /\ UNCHANGED <<instances, charts, startPc, started, dying, halted, adoptVars,
                 timerVars, shutPc, deathNote, sched, ops, scheduled,
                 delivered, quiet, noteCalls>>
  /\ UNCHANGED auxVars

\* Time passes: every armed timer comes one unit closer.  A timer that is due
\* fires before any more time passes.
Tick ==
  /\ \A e \in Engines : grace[e] # 0 /\ adoptT[e] # 0
  /\ \E e \in Engines : grace[e] > 0 \/ adoptT[e] > 0
  /\ grace' = [e \in Engines |-> IF grace[e] > 0 THEN grace[e] - 1 ELSE grace[e]]
  /\ adoptT' = [e \in Engines |-> IF adoptT[e] > 0 THEN adoptT[e] - 1 ELSE adoptT[e]]
  /\ quiet' = [e \in Engines |->
                IF grace[e] > 0 /\ quiet[e] <= GracePeriod THEN quiet[e] + 1 ELSE quiet[e]]
  /\ UNCHANGED <<dbVars, startVars, dying, halted, adoptVars, forceVars, shutPc,
                 deathNote, memVars, ops, scheduled, delivered, noteCalls>>
  /\ UNCHANGED auxVars

\* ------------------------------------------------- XJogDeferredEventManager
\* The rows a batch read by e newly locks, as the manager keeps them.
takeUpcomingDeferredEvents(rows, e) ==
  {[r EXCEPT !.lock = e] : r \in {x \in rows : x.lock = NoOne}}

\* XJog.start after startupManager.start: the first scheduleUpcoming, then
\* the death note listener is installed.
StartSchedule(e) ==
  /\ startPc[e] = "schedule"
  /\ deferred' = readDeferredEventRowBatch(deferred, e)
  /\ sched' = [sched EXCEPT ![e] = @ \cup takeUpcomingDeferredEvents(deferred, e)]
  /\ readArmed' = [readArmed EXCEPT ![e] = TRUE]
  /\ deathNote' = [deathNote EXCEPT ![e] = "polling"]
  /\ startPc' = [startPc EXCEPT ![e] = "done"]
  /\ UNCHANGED <<instances, charts, ongoing, nextId, started, ready, dying,
                 halted, adoptVars, timerVars, forceVars, shutPc, acts, cache,
                 ops, obsVars>>
  /\ UNCHANGED auxVars

\* The read timer fires: scheduleUpcoming.  A dying engine returns at once
\* and the timer stays cleared; otherwise a batch is taken and the timer is
\* armed again.
ReadDeferred(e) ==
  /\ readArmed[e]
  /\ IF dying[e]
     THEN /\ readArmed' = [readArmed EXCEPT ![e] = FALSE]
          /\ UNCHANGED <<deferred, sched>>
     ELSE /\ takeUpcomingDeferredEvents(deferred, e) # {}
          /\ deferred' = readDeferredEventRowBatch(deferred, e)
          /\ sched' = [sched EXCEPT ![e] = @ \cup takeUpcomingDeferredEvents(deferred, e)]
          /\ readArmed' = readArmed
  /\ UNCHANGED <<instances, charts, ongoing, nextId, startVars, dying, halted,
                 adoptVars, timerVars, forceVars, shutPc, deathNote, acts,
                 cache, ops, obsVars>>
  /\ UNCHANGED auxVars

\* The timer of a scheduled deferred event fires: sendEvent, then the event
\* leaves the list and its row is deleted.
Fire(e, r) ==
  /\ r \in sched[e]
  /\ LET res == send(e, r.ref, r.event, r.fromAction, deferred)
     IN /\ res.nid > nextId => CanDefer
        /\ charts' = res.charts
        /\ ongoing' = res.og
        /\ acts' = [acts EXCEPT ![e] = res.ac]
        /\ deferred' = deleteDeferredEvent(res.df, r.id)
        /\ nextId' = res.nid
        /\ readArmed' = [readArmed EXCEPT ![e] = res.armed]
        /\ cache' = [cache EXCEPT ![e][r.ref] = res.chart]
        /\ scheduled' = [scheduled EXCEPT ![r.ref] = IF res.sent THEN @ + 1 ELSE @]
        /\ delivered' = [delivered EXCEPT ![r.ref] =
                           IF res.moved /\ r.fromAction THEN @ + 1 ELSE @]
  /\ sched' = [sched EXCEPT ![e] = @ \ {r}]
  /\ UNCHANGED <<instances, startVars, dying, halted, adoptVars, timerVars,
                 forceVars, shutPc, deathNote, ops, quiet, noteCalls>>
  /\ UNCHANGED auxVars

\* ------------------------------------------------- XJog
\* What XJog.shutdown does before its first await, when it does not return
\* early: the listener is cancelled and the engine is dying.
shutdownBegins(e) == started[e] /\ ~dying[e]

\* One poll of PostgresPersistenceAdapter.onDeathNote that finds the row
\* dying.  cancelled is set before it is tested, so the test is on TRUE.
DeathPoll(e) ==
  /\ deathNote[e] = "polling"
  /\ instances[e] = "dying"
  /\ deathNote' = [deathNote EXCEPT ![e] = "sawDying"]
  /\ LET cancelled == TRUE
     IN IF ~cancelled /\ shutdownBegins(e)
        THEN /\ noteCalls' = [noteCalls EXCEPT ![e] = @ + 1]
             /\ dying' = [dying EXCEPT ![e] = TRUE]
             /\ shutPc' = [shutPc EXCEPT ![e] = "release"]
        ELSE UNCHANGED <<noteCalls, dying, shutPc>>
  /\ UNCHANGED <<dbVars, startVars, halted, adoptVars, timerVars, forceVars,
                 memVars, ops, scheduled, delivered, quiet>>
  /\ UNCHANGED auxVars

\* The user calls shutdown(): cancelDeathNoteListening, dying, removeInstance.
Shutdown(e) ==
  /\ ops < MaxOps
  /\ startPc[e] = "done"
  /\ shutdownBegins(e)
  /\ ops' = ops + 1
  /\ deathNote' = [deathNote EXCEPT ![e] = "cancelled"]
  /\ dying' = [dying EXCEPT ![e] = TRUE]
  /\ instances' = deleteInstance(instances, e)
  /\ shutPc' = [shutPc EXCEPT ![e] = "release"]
  /\ UNCHANGED <<charts, ongoing, deferred, nextId, startVars, halted,
                 adoptVars, timerVars, forceVars, memVars, obsVars>>
  /\ UNCHANGED auxVars

\* shutdown: deferredEventManager.releaseAll.
ShutRelease(e) ==
  /\ shutPc[e] = "release"
  /\ sched' = [sched EXCEPT ![e] = {}]
  /\ readArmed' = [readArmed EXCEPT ![e] = FALSE]
  /\ deferred' = unmarkAllDeferredEventsForProcessing(deferred)
  /\ shutPc' = [shutPc EXCEPT ![e] = "stop"]
  /\ UNCHANGED <<instances, charts, ongoing, nextId, startVars, dying, halted,
                 adoptVars, timerVars, forceVars, deathNote, acts, cache, ops,
                 obsVars>>
  /\ UNCHANGED auxVars

\* shutdown: activityManager.stopAllActivities, and startupManager.stop when
\* the engine is not ready yet.  A pass that is under way is not interrupted.
ShutStop(e) ==
  /\ shutPc[e] = "stop"
  /\ acts' = [acts EXCEPT ![e] = {}]
  /\ ongoing' = ongoing \ acts[e]
  /\ IF ~ready[e]
     THEN /\ grace' = [grace EXCEPT ![e] = -1]
          /\ adoptT' = [adoptT EXCEPT ![e] = -1]
          /\ adoptPc' = [adoptPc EXCEPT ![e] = IF @ = "sleep" THEN "done" ELSE @]
          /\ ready' = [ready EXCEPT ![e] = TRUE]
          /\ quiet' = [quiet EXCEPT ![e] = 0]
     ELSE UNCHANGED <<grace, adoptT, adoptPc, ready, quiet>>
  /\ shutPc' = [shutPc EXCEPT ![e] = "count"]
  /\ UNCHANGED <<instances, charts, deferred, nextId, startPc, started, dying,
                 halted, adopted, todo, pausedCount, forceVars, deathNote,
                 cache, sched, readArmed, ops, scheduled, delivered, noteCalls>>
  /\ UNCHANGED auxVars

\* shutdown: countAliveInstances decides between waiting and halting.
ShutCount(e) ==
  /\ shutPc[e] = "count"
  /\ IF countAliveInstances(instances) > 0
     THEN /\ shutPc' = [shutPc EXCEPT ![e] = "wait"]
          /\ halted' = halted
     ELSE /\ shutPc' = [shutPc EXCEPT ![e] = "done"]
          /\ halted' = [halted EXCEPT ![e] = TRUE]
  /\ UNCHANGED <<dbVars, startVars, dying, adoptVars, timerVars, forceVars,
                 deathNote, memVars, ops, obsVars>>
  /\ UNCHANGED auxVars

\* shutdown: the poll of countOwnCharts that finds none; 'halt' is emitted.
ShutWait(e) ==
  /\ shutPc[e] = "wait"
  /\ countOwnCharts(charts, e) = 0
  /\ shutPc' = [shutPc EXCEPT ![e] = "done"]
  /\ halted' = [halted EXCEPT ![e] = TRUE]
  /\ UNCHANGED <<dbVars, startVars, dying, adoptVars, timerVars, forceVars,
                 deathNote, memVars, ops, obsVars>>
  /\ UNCHANGED auxVars

\* The user creates chart c on engine e: XJogMachine.createChart.  An insert
\* that the table rejects throws before anything else is done.
CreateChart(e, c) ==
  /\ ops < MaxOps
  /\ startPc[e] = "done"
  /\ ~dying[e]
  /\ insertChart(charts, e, c, InitialState) # charts
  /\ c # FirstChart => HasRow(charts, FirstChart)
  /\ ops' = ops + 1
  /\ charts' = insertChart(charts, e, c, InitialState)
  /\ cache' = [cache EXCEPT ![e][c] = InitialState]
  /\ UNCHANGED <<instances, ongoing, deferred, nextId, startVars, dying,
                 halted, adoptVars, timerVars, forceVars, shutPc, deathNote,
                 acts, sched, readArmed, obsVars>>
  /\ UNCHANGED auxVars

\* The user sends event ev to chart c on engine e: XJog.sendEvent.
Send(e, c, ev) ==
  /\ ops < MaxOps
  /\ startPc[e] = "done"
  /\ ~halted[e]
  /\ getChart(e, c) # "none"
  /\ ops' = ops + 1
  /\ LET res == send(e, c, ev, FALSE, deferred)
     IN /\ res.nid > nextId => CanDefer
        /\ charts' = res.charts
        /\ ongoing' = res.og
        /\ acts' = [acts EXCEPT ![e] = res.ac]
        /\ deferred' = res.df
        /\ nextId' = res.nid
        /\ readArmed' = [readArmed EXCEPT ![e] = res.armed]
        /\ cache' = [cache EXCEPT ![e][c] = res.chart]
        /\ scheduled' = [scheduled EXCEPT ![c] = IF res.sent THEN @ + 1 ELSE @]
  /\ UNCHANGED <<instances, startVars, dying, halted, adoptVars, timerVars,
                 forceVars, shutPc, deathNote, sched, delivered, quiet,
                 noteCalls>>
  /\ UNCHANGED auxVars

\* The user calls registerMachine with a machine id: it throws once
\* startupManager.started is set or when the id is registered, and registers
\* the machine otherwise.
RegisterMachine(e, m) ==
  /\ ops < MaxOps
  /\ ops' = ops + 1
  /\ registeredMachines' =
       IF started[e] \/ m \in registeredMachines[e]
       THEN registeredMachines
       ELSE [registeredMachines EXCEPT ![e] = @ \cup {m}]
  /\ UNCHANGED <<dbVars, startVars, dying, halted, adoptVars, timerVars,
                 forceVars, shutPc, deathNote, memVars, obsVars>>
  /\ UNCHANGED <<demVars, chVars, sideVars>>

\* ------------------------------------------------- the specification
Next ==
  \/ \E e \in Engines : Start(e)
  \/ \E e \in Engines : GentleSelect(e)
  \/ \E e \in Engines : GentleUpdate(e)
  \/ \E e \in Engines : CountPaused(e)
  \/ \E e \in Engines, c \in Charts : StartAdopted(e, c)
  \/ \E e \in Engines : AdoptTimerFire(e)
  \/ \E e \in Engines : GraceExpire(e)
  \/ \E e \in Engines, c \in Charts : ForceStart(e, c)
  \/ \E e \in Engines : StartSchedule(e)
  \/ \E e \in Engines : ReadDeferred(e)
  \/ \E e \in Engines : \E r \in sched[e] : Fire(e, r)
  \/ \E e \in Engines : DeathPoll(e)
  \/ \E e \in Engines : Shutdown(e)
  \/ \E e \in Engines : ShutRelease(e)
  \/ \E e \in Engines : ShutStop(e)
  \/ \E e \in Engines : ShutCount(e)
  \/ \E e \in Engines : ShutWait(e)
  \/ \E e \in Engines, c \in Charts : CreateChart(e, c)
  \/ \E e \in Engines, c \in Charts, ev \in UserEvents : Send(e, c, ev)
  \/ \E e \in Engines, m \in MachineIds : RegisterMachine(e, m)
  \/ Tick

Spec == Init /\ [][Next]_vars

\* Every continuation and timer callback of an engine that is runnable gets
\* run by its event loop, and time passes; the user's calls are under no
\* obligation.
EngineStep(e) ==
  \/ GentleSelect(e)
  \/ GentleUpdate(e)
  \/ CountPaused(e)
  \/ \E c \in Charts : StartAdopted(e, c)
  \/ AdoptTimerFire(e)
  \/ GraceExpire(e)
  \/ \E c \in Charts : ForceStart(e, c)
  \/ StartSchedule(e)
  \/ ReadDeferred(e)
  \/ \E r \in sched[e] : Fire(e, r)
  \/ DeathPoll(e)
  \/ ShutRelease(e)
  \/ ShutStop(e)
  \/ ShutCount(e)
  \/ ShutWait(e)

FairSpec == Spec /\ WF_vars(Tick) /\ \A e \in Engines : WF_vars(EngineStep(e))

\* ------------------------------------------------- XJogDeferredEventManager in detail
\* One engine's manager: [list, timers, map, handle].
manager(e) ==
  [list |-> dList[e], timers |-> dTimers[e], map |-> dMap[e], handle |-> dHandle[e]]

\* schedule(row): a timer is armed and kept under the row's id, and the row
\* is put into the list.
schedule(st, r, now) ==
  [list |-> scheduleInList(st.list, r),
   timers |-> st.timers \cup {scheduleTimer(r, now, st.handle + 1)},
   map |-> [st.map EXCEPT ![r.id] = st.handle + 1],
   handle |-> st.handle + 1]

\* scheduleUpcoming: for (const row of batch) this.schedule(row)
RECURSIVE scheduleBatch(_, _, _)
scheduleBatch(st, batch, now) ==
  IF batch = <<>> THEN st
  ELSE scheduleBatch(schedule(st, Head(batch), now), Tail(batch), now)

\* unschedule(eventId) and the removeDeferredEvent of cancel, on a manager and
\* the table: [list, timers, map, handle, table].
cancel(st, table, eventId) ==
  LET idx == findIndex(st.list, LAMBDA x : x.eventId = eventId)
      row == st.list[idx + 1]
  IN IF idx = -1
     THEN [list |-> st.list, timers |-> st.timers, map |-> st.map,
           handle |-> st.handle, table |-> table]
     ELSE [list |-> spliceRemove(st.list, idx),
           timers |-> {t \in st.timers : st.map[row.id] = 0 \/ t.handle # st.map[row.id]},
           map |-> [st.map EXCEPT ![row.id] = 0],
           handle |-> st.handle,
           table |-> {r \in table : r.id # row.id}]

\* cancelAllForChart: for (const id of deferredEventIds) await this.cancel(id)
RECURSIVE cancelEach(_, _)
cancelEach(stt, ids) ==
  IF ids = <<>> THEN stt
  ELSE cancelEach(cancel(stt, stt.table, JsNumber(Head(ids))), Tail(ids))

\* The ids cancelAllForChart collects: those of the listed rows of the chart.
deferredEventIds(list, c) ==
  LET keep(x) == x.ref = c
  IN [i \in 1..Len(SelectSeq(list, keep)) |-> SelectSeq(list, keep)[i].id]

\* XJog.start calls scheduleUpcoming: the statement of the batch read starts.
DStart(e) ==
  /\ ~dStarted[e] /\ ~dDying[e] /\ readPc[e] = "idle"
  /\ e # FirstEngine => dStarted[FirstEngine]
  /\ dStarted' = [dStarted EXCEPT ![e] = TRUE]
  /\ readTimer' = [readTimer EXCEPT ![e] = -1]
  /\ readPc' = [readPc EXCEPT ![e] = "update"]
  /\ readIds' = [readIds EXCEPT ![e] = selectBatchIds(dTable, clock)]
  /\ UNCHANGED <<clock, dTable, dSerial, dList, dTimers, dMap, dHandle,
                 nextReadAt, dDying, dOps, dDelivered, dCancelled>>
  /\ UNCHANGED <<lifeVars, chVars, destroyVars, sideVars>>

\* The read timer fires scheduleUpcoming: a dying engine returns, another one
\* starts the statement of the batch read.
ReadTimerFire(e) ==
  /\ readTimer[e] # -1 /\ readTimer[e] <= clock /\ readPc[e] = "idle"
  /\ readTimer' = [readTimer EXCEPT ![e] = -1]
  /\ IF dDying[e]
     THEN UNCHANGED <<readPc, readIds>>
     ELSE /\ readPc' = [readPc EXCEPT ![e] = "update"]
          /\ readIds' = [readIds EXCEPT ![e] = selectBatchIds(dTable, clock)]
  /\ UNCHANGED <<clock, dTable, dSerial, dList, dTimers, dMap, dHandle,
                 nextReadAt, dDying, dStarted, dOps, dDelivered, dCancelled>>
  /\ UNCHANGED <<lifeVars, chVars, destroyVars, sideVars>>

\* The batch statement updates and returns its rows; scheduleUpcoming
\* schedules each and arms the next read: at the last row's due time after a
\* full batch, else after the interval.
ReadUpdate(e) ==
  /\ readPc[e] = "update"
  /\ LET batch == returnedBatch(dTable, readIds[e], e)
         st == scheduleBatch(manager(e), batch, clock)
         last == batch[Len(batch)]
     IN /\ dTable' = updateBatch(dTable, readIds[e], e)
        /\ dList' = [dList EXCEPT ![e] = st.list]
        /\ dTimers' = [dTimers EXCEPT ![e] = st.timers]
        /\ dMap' = [dMap EXCEPT ![e] = st.map]
        /\ dHandle' = [dHandle EXCEPT ![e] = st.handle]
        /\ IF Len(batch) = BatchSize
           THEN /\ nextReadAt' = [nextReadAt EXCEPT ![e] = last.due]
                /\ readTimer' = [readTimer EXCEPT ![e] =
                                   IF last.due - clock < 0 THEN clock ELSE last.due]
           ELSE /\ nextReadAt' = [nextReadAt EXCEPT ![e] = clock + Interval]
                /\ readTimer' = [readTimer EXCEPT ![e] = clock + Interval]
  /\ readPc' = [readPc EXCEPT ![e] = "idle"]
  /\ readIds' = [readIds EXCEPT ![e] = {}]
  /\ UNCHANGED <<clock, dSerial, dDying, dStarted, dOps, dDelivered, dCancelled>>
  /\ UNCHANGED <<lifeVars, chVars, destroyVars, sideVars>>

\* takeUpcomingDeferredEvents rejects (the connection fails before the
\* statement has run): scheduleUpcoming, the callback of the read timer,
\* rejects at its await; nothing after the await runs.
ReadFails(e) ==
  /\ readPc[e] = "update"
  /\ readPc' = [readPc EXCEPT ![e] = "idle"]
  /\ readIds' = [readIds EXCEPT ![e] = {}]
  /\ UNCHANGED <<clock, dTable, dSerial, dList, dTimers, dMap, dHandle,
                 nextReadAt, readTimer, dDying, dStarted, dOps, dDelivered,
                 dCancelled>>
  /\ UNCHANGED <<lifeVars, chVars, destroyVars, sideVars>>

\* A chart of the started engine e defers an event: defer inserts the row
\* and, when no read is scheduled before the event is due, reschedules the
\* read.  Chart ids are interchangeable: c1 is the first to defer.
Defer(e, c, delay, eventId) ==
  /\ dOps < MaxOps /\ dSerial <= MaxDeferred /\ dStarted[e] /\ ~dDying[e]
  /\ c \in dCharts
  /\ c # FirstChart => \E r \in dTable : r.ref = FirstChart
  /\ dOps' = dOps + 1
  /\ dTable' = insertDeferredEventRow(dTable, dSerial, c, eventId, delay, clock)
  /\ dSerial' = dSerial + 1
  /\ LET dueTime == clock + delay
         lastDue == dList[e][Len(dList[e])].due
         at == IF dList[e] = <<>> THEN dueTime
               ELSE IF dueTime < lastDue THEN dueTime ELSE lastDue
     IN IF nextReadAt[e] >= dueTime
        THEN /\ nextReadAt' = [nextReadAt EXCEPT ![e] = at]
             /\ readTimer' = [readTimer EXCEPT ![e] = IF at - clock < 0 THEN clock ELSE at]
        ELSE UNCHANGED <<nextReadAt, readTimer>>
  /\ UNCHANGED <<clock, dList, dTimers, dMap, dHandle, readPc, readIds, dDying,
                 dStarted, dDelivered, dCancelled>>
  /\ UNCHANGED <<lifeVars, chVars, destroyVars, sideVars>>

\* The timer of a scheduled row fires: the event is sent, the row leaves the
\* list and the timer map, and it is deleted from the table.  When the chart
\* has no row and is not in the engine's cache either, loadChart reads the
\* state of a row that is null: the callback ends there, in a rejection.
DFire(e, t) ==
  /\ t \in dTimers[e] /\ t.at <= clock
  /\ dDelivered[t.row.id] < MaxDeferred
  /\ dTimers' = [dTimers EXCEPT ![e] = @ \ {t}]
  /\ \/ /\ dDelivered' = [dDelivered EXCEPT ![t.row.id] = @ + 1]
        /\ dList' = [dList EXCEPT ![e] =
                       spliceRemove(@, findIndex(@, LAMBDA x : x.id = t.row.id))]
        /\ dMap' = [dMap EXCEPT ![e][t.row.id] = 0]
        /\ dTable' = {r \in dTable : r.id # t.row.id}
     \/ /\ t.row.ref \notin dCharts
        /\ UNCHANGED <<dDelivered, dList, dMap, dTable>>
  /\ UNCHANGED <<clock, dSerial, dHandle, nextReadAt, readTimer, readPc,
                 readIds, dDying, dStarted, dOps, dCancelled>>
  /\ UNCHANGED <<lifeVars, chVars, destroyVars, sideVars>>

\* PostgresPersistenceAdapter.destroyChart, first statement: the chart's row
\* is deleted, on the pool and outside any transaction.
DestroyChart(c) ==
  /\ dOps < MaxOps /\ c \in dCharts /\ dDestroy[c] = "none"
  /\ dOps' = dOps + 1
  /\ dCharts' = dCharts \ {c}
  /\ dDestroy' = [dDestroy EXCEPT ![c] = "chart"]
  /\ UNCHANGED <<clock, dTable, dSerial, dList, dTimers, dMap, dHandle,
                 nextReadAt, readTimer, readPc, readIds, dDying, dStarted,
                 dDelivered, dCancelled, dExtIds>>
  /\ UNCHANGED <<lifeVars, chVars, sideVars>>

\* destroyChart, second statement: the chart's deferred events are deleted
\* and destroyChart returns, the deletion of the external identifiers sent
\* but not awaited; or the statement fails and destroyChart throws.
DeleteAllDeferredEvents(c) ==
  /\ dDestroy[c] = "chart"
  /\ \/ /\ dTable' = {r \in dTable : r.ref # c}
        /\ dDestroy' = [dDestroy EXCEPT ![c] = "returned"]
     \/ /\ dTable' = dTable
        /\ dDestroy' = [dDestroy EXCEPT ![c] = "failed"]
  /\ UNCHANGED <<clock, dSerial, dList, dTimers, dMap, dHandle, nextReadAt,
                 readTimer, readPc, readIds, dDying, dStarted, dOps,
                 dDelivered, dCancelled, dCharts, dExtIds>>
  /\ UNCHANGED <<lifeVars, chVars, sideVars>>

\* destroyChart, third statement, which runs after destroyChart has returned.
DeleteExternalIdentifiers(c) ==
  /\ dDestroy[c] = "returned"
  /\ dExtIds' = dExtIds \ {c}
  /\ dDestroy' = [dDestroy EXCEPT ![c] = "done"]
  /\ UNCHANGED <<clock, dTable, dSerial, dList, dTimers, dMap, dHandle,
                 nextReadAt, readTimer, readPc, readIds, dDying, dStarted,
                 dOps, dDelivered, dCancelled, dCharts>>
  /\ UNCHANGED <<lifeVars, chVars, sideVars>>

\* A transition of chart c on engine e executes a cancel action with the
\* sendId of its own deferred event.
Cancel(e, c, eventId) ==
  /\ dOps < MaxOps /\ ~dDying[e]
  /\ \E r \in dTable : r.ref = c /\ r.eventId = eventId
  /\ dOps' = dOps + 1
  /\ LET res == cancel(manager(e), dTable, eventId)
     IN /\ dList' = [dList EXCEPT ![e] = res.list]
        /\ dTimers' = [dTimers EXCEPT ![e] = res.timers]
        /\ dMap' = [dMap EXCEPT ![e] = res.map]
        /\ dTable' = res.table
  /\ dCancelled' = dCancelled \cup
                     {r.id : r \in {x \in dTable : x.ref = c /\ x.eventId = eventId}}
  /\ UNCHANGED <<clock, dSerial, dHandle, nextReadAt, readTimer, readPc,
                 readIds, dDying, dStarted, dDelivered>>
  /\ UNCHANGED <<lifeVars, chVars, destroyVars, sideVars>>

\* cancelAllForChart(ref) on engine e, which has rows of the chart listed.
CancelAllForChart(e, c) ==
  /\ dOps < MaxOps /\ ~dDying[e]
  /\ deferredEventIds(dList[e], c) # <<>>
  /\ dOps' = dOps + 1
  /\ LET st == manager(e)
         res == cancelEach([list |-> st.list, timers |-> st.timers, map |-> st.map,
                            handle |-> st.handle, table |-> dTable],
                           deferredEventIds(dList[e], c))
     IN /\ dList' = [dList EXCEPT ![e] = res.list]
        /\ dTimers' = [dTimers EXCEPT ![e] = res.timers]
        /\ dMap' = [dMap EXCEPT ![e] = res.map]
        /\ dTable' = res.table
  /\ UNCHANGED <<clock, dSerial, dHandle, nextReadAt, readTimer, readPc,
                 readIds, dDying, dStarted, dDelivered, dCancelled>>
  /\ UNCHANGED <<lifeVars, chVars, destroyVars, sideVars>>

\* XJog.shutdown up to deferredEventManager.releaseAll: the engine is dying,
\* the read timer and the timers in the map are cleared, the list and the map
\* are emptied, and releaseAllDeferredEvents unlocks the rows.
releaseAll(e) ==
  /\ dOps < MaxOps /\ dStarted[e] /\ ~dDying[e]
  /\ dOps' = dOps + 1
  /\ dDying' = [dDying EXCEPT ![e] = TRUE]
  /\ readTimer' = [readTimer EXCEPT ![e] = -1]
  /\ dTimers' = [dTimers EXCEPT ![e] =
                   {t \in @ : \A i \in DOMAIN dMap[e] : dMap[e][i] # t.handle}]
  /\ dList' = [dList EXCEPT ![e] = <<>>]
  /\ dMap' = [dMap EXCEPT ![e] = [i \in DOMAIN @ |-> 0]]
  /\ dTable' = {[r EXCEPT !.lock = NoOne] : r \in dTable}
  /\ UNCHANGED <<clock, dSerial, dHandle, nextReadAt, readPc, readIds,
                 dStarted, dDelivered, dCancelled>>
  /\ UNCHANGED <<lifeVars, chVars, destroyVars, sideVars>>

\* Time passes, when no armed timer is due and no statement is under way.
DTick ==
  /\ clock < MaxTicks * 500
  /\ \A e \in Engines :
       /\ readPc[e] = "idle"
       /\ readTimer[e] = -1 \/ readTimer[e] > clock
       /\ \A t \in dTimers[e] : t.at > clock
  /\ clock' = clock + 500
  /\ UNCHANGED <<dTable, dSerial, dList, dTimers, dMap, dHandle, nextReadAt,
                 readTimer, readPc, readIds, dDying, dStarted, dOps, dDelivered, dCancelled>>
  /\ UNCHANGED <<lifeVars, chVars, destroyVars, sideVars>>

DemNext ==
  \/ \E e \in Engines : DStart(e)
  \/ \E e \in Engines : ReadTimerFire(e)
  \/ \E e \in Engines : ReadUpdate(e)
  \/ \E e \in Engines : ReadFails(e)
  \/ \E e \in Engines, c \in Charts, delay \in Delays, eventId \in EventIds :
       Defer(e, c, delay, eventId)
  \/ \E e \in Engines : \E t \in dTimers[e] : DFire(e, t)
  \/ \E e \in Engines, c \in Charts, eventId \in EventIds : Cancel(e, c, eventId)
  \/ \E e \in Engines, c \in Charts : CancelAllForChart(e, c)
  \/ \E e \in Engines : releaseAll(e)
  \/ \E c \in Charts : DestroyChart(c)
  \/ \E c \in Charts : DeleteAllDeferredEvents(c)
  \/ \E c \in Charts : DeleteExternalIdentifiers(c)
  \/ DTick

DeferredSpec == Init /\ [][DemNext]_vars

\* ------------------------------------------------- XJogChart.send in detail
\* What send does once acquireMutex has returned, up to its first await: it
\* keeps the old state, moves this.state and refreshes the cache.
enterSection(k, held) ==
  /\ chOld' = [chOld EXCEPT ![k] = chState[chObj[k]]]
  /\ chState' = [chState EXCEPT ![chObj[k]] = transition(@, chEv[k])]
  /\ chCache' = chObj[k]
  /\ chHeld' = [chHeld EXCEPT ![k] = held]
  /\ chPc' = [chPc EXCEPT ![k] = "hooks"]

\* The finally of send: the release that acquireMutex returned, which frees
\* the mutex only if the mutex was acquired.
releaseMutex(k) ==
  chMutex' = IF chHeld[k] THEN [chMutex EXCEPT ![chObj[k]] = NoOne] ELSE chMutex

\* getChart, up to the await of XJogChart.load: a cache hit returns the
\* cached object.
GetChart(k) ==
  /\ chPc[k] = "idle"
  /\ IF chCache # NoOne
     THEN /\ chObj' = [chObj EXCEPT ![k] = chCache]
          /\ chPc' = [chPc EXCEPT ![k] = "got"]
     ELSE /\ chObj' = chObj
          /\ chPc' = [chPc EXCEPT ![k] = "loading"]
  /\ UNCHANGED <<chRow, chOwned, chDying, chCache, chState, chMutex, chEv,
                 chOld, chHeld, chTimedOut, chRet, chChanges, chJournal>>
  /\ UNCHANGED <<lifeVars, demVars, sideVars>>

\* getChart after a cache miss: XJogChart.load makes a new chart object, with
\* a mutex of its own, from the row; refreshCache stores it.
LoadChart(k) ==
  /\ chPc[k] = "loading"
  /\ chState' = [chState EXCEPT ![k] = chRow]
  /\ chCache' = k
  /\ chObj' = [chObj EXCEPT ![k] = k]
  /\ chPc' = [chPc EXCEPT ![k] = "got"]
  /\ UNCHANGED <<chRow, chOwned, chDying, chMutex, chEv, chOld, chHeld,
                 chTimedOut, chRet, chChanges, chJournal>>
  /\ UNCHANGED <<lifeVars, demVars, sideVars>>

\* send is called: a dying engine defers the event and returns null, another
\* one asks for the chart object's mutex.
SendEnter(k, ev) ==
  /\ chPc[k] = "got"
  /\ chEv' = [chEv EXCEPT ![k] = ev]
  /\ IF chDying
     THEN /\ chRet' = [chRet EXCEPT ![k] = "null"]
          /\ chPc' = [chPc EXCEPT ![k] = "done"]
     ELSE /\ chRet' = chRet
          /\ chPc' = [chPc EXCEPT ![k] = "acquire"]
  /\ UNCHANGED <<chRow, chOwned, chDying, chCache, chState, chMutex, chObj,
                 chOld, chHeld, chTimedOut, chChanges, chJournal>>
  /\ UNCHANGED <<lifeVars, demVars, sideVars>>

\* acquireMutex: chartMutex.acquire() resolves when the mutex is free.
AcquireMutex(k) ==
  /\ chPc[k] = "acquire"
  /\ chMutex[chObj[k]] = NoOne
  /\ chMutex' = [chMutex EXCEPT ![chObj[k]] = k]
  /\ enterSection(k, TRUE)
  /\ UNCHANGED <<chRow, chOwned, chDying, chObj, chEv, chTimedOut, chRet,
                 chChanges, chJournal>>
  /\ UNCHANGED <<lifeVars, demVars, sideVars>>

\* acquireMutex: chartMutex.acquire() rejects after chartMutexTimeout, the
\* mutex still held.  The catch awaits xJog.shutdown(), which returns at once
\* when the engine is dying already, and then returns a release that does
\* nothing; send goes on from there.
MutexTimeout(k) ==
  /\ chPc[k] = "acquire"
  /\ chMutex[chObj[k]] # NoOne
  /\ chTimedOut' = [chTimedOut EXCEPT ![k] = TRUE]
  /\ chDying' = TRUE
  /\ IF chDying
     THEN enterSection(k, FALSE)
     ELSE /\ chPc' = [chPc EXCEPT ![k] = "shutdown"]
          /\ UNCHANGED <<chOld, chState, chCache, chHeld>>
  /\ UNCHANGED <<chRow, chOwned, chMutex, chObj, chEv, chRet, chChanges, chJournal>>
  /\ UNCHANGED <<lifeVars, demVars, sideVars>>

\* Another engine adopts the chart of the dying engine.
Adopted ==
  /\ chDying /\ chOwned
  /\ chOwned' = FALSE
  /\ UNCHANGED <<chRow, chDying, chCache, chState, chMutex, chPc, chObj, chEv,
                 chOld, chHeld, chTimedOut, chRet, chChanges, chJournal>>
  /\ UNCHANGED <<lifeVars, demVars, sideVars>>

\* The shutdown that acquireMutex awaits resolves once the engine owns no
\* chart; acquireMutex returns the release that does nothing.
ShutdownResolves(k) ==
  /\ chPc[k] = "shutdown"
  /\ ~chOwned
  /\ enterSection(k, FALSE)
  /\ UNCHANGED <<chRow, chOwned, chDying, chMutex, chObj, chEv, chTimedOut,
                 chRet, chChanges, chJournal>>
  /\ UNCHANGED <<lifeVars, demVars, sideVars>>

\* The change that send hands to the hooks and to changeSubject.
change(k) ==
  [type |-> "update", event |-> chEv[k], old |-> chOld[k],
   new |-> chState[chObj[k]]]

\* An update hook throws, one that runs before the journal writer's hook or
\* after it: the catch of send logs the error and returns null.
HookThrows(k) ==
  /\ chPc[k] = "hooks"
  /\ chRet' = [chRet EXCEPT ![k] = "null"]
  /\ chJournal' \in {chJournal, Append(chJournal, change(k))}
  /\ releaseMutex(k)
  /\ chPc' = [chPc EXCEPT ![k] = "done"]
  /\ UNCHANGED <<chRow, chOwned, chDying, chCache, chState, chObj, chEv,
                 chOld, chHeld, chTimedOut, chChanges>>
  /\ UNCHANGED <<lifeVars, demVars, sideVars>>

\* The hooks return, the journal writer's among them: updateChart writes
\* this.state to the row, the change is passed to changeSubject, the mutex is
\* released and send returns this.state.
UpdateChart(k) ==
  /\ chPc[k] = "hooks"
  /\ chRow' = chState[chObj[k]]
  /\ chJournal' = Append(chJournal, change(k))
  /\ chChanges' = Append(chChanges, change(k))
  /\ chRet' = [chRet EXCEPT ![k] = chState[chObj[k]]]
  /\ releaseMutex(k)
  /\ chPc' = [chPc EXCEPT ![k] = "done"]
  /\ UNCHANGED <<chOwned, chDying, chCache, chState, chObj, chEv, chOld,
                 chHeld, chTimedOut>>
  /\ UNCHANGED <<lifeVars, demVars, sideVars>>

\* The startup manager runs runStep on a chart it got from getChart: the
\* actions are executed and a change is passed to changeSubject; the hooks
\* are not called.
RunStep(k) ==
  /\ chPc[k] = "got"
  /\ chChanges' = Append(chChanges,
                         [type |-> "create", event |-> "none",
                          old |-> chState[chObj[k]], new |-> chState[chObj[k]]])
  /\ chPc' = [chPc EXCEPT ![k] = "done"]
  /\ UNCHANGED <<chRow, chOwned, chDying, chCache, chState, chMutex, chObj,
                 chEv, chOld, chHeld, chTimedOut, chRet, chJournal>>
  /\ UNCHANGED <<lifeVars, demVars, sideVars>>

ChartNext ==
  \/ \E k \in Callers : GetChart(k)
  \/ \E k \in Callers : LoadChart(k)
  \/ \E k \in Callers, ev \in UserEvents : SendEnter(k, ev)
  \/ \E k \in Callers : AcquireMutex(k)
  \/ \E k \in Callers : MutexTimeout(k)
  \/ Adopted
  \/ \E k \in Callers : ShutdownResolves(k)
  \/ \E k \in Callers : HookThrows(k)
  \/ \E k \in Callers : UpdateChart(k)
  \/ \E k \in Callers : RunStep(k)

ChartSpec == Init /\ [][ChartNext]_vars

\* ------------------------------------------------- the journal in detail
\* The same statement without its WHERE.
updateFullStateAlways(stored, id) == id

\* INSERT INTO "fullJournalStates" ... ON CONFLICT ... DO UPDATE ... WHERE
\* "fullJournalStates"."id" < :id: the id of the row afterwards.
updateFullState(stored, id) ==
  IF stored = 0 \/ stored < id THEN id ELSE stored

\* queryEntries({ afterId, order: 'DESC' }): the ids above afterId, the
\* highest first; hi is the highest id in the table.
queryEntries(afterId, hi) == [i \in 1..(hi - afterId) |-> hi - i + 1]

\* yieldJournalEntries: the pointer and the emitted ids after the loop over
\* the entries, which returns at the first id below the pointer.
RECURSIVE yieldJournalEntries(_, _, _)
yieldJournalEntries(entries, pointer, seen) ==
  IF entries = <<>> \/ Head(entries) < pointer
  THEN [pointer |-> pointer, seen |-> seen]
  ELSE yieldJournalEntries(Tail(entries), Head(entries),
                           Append(seen, Head(entries)))

\* record: insertEntry returns the id of the new journal entry.
InsertEntry(r) ==
  /\ jPc[r] = "idle" /\ jSerial <= MaxEntries
  /\ jId' = [jId EXCEPT ![r] = jSerial]
  /\ jSerial' = jSerial + 1
  /\ jPc' = [jPc EXCEPT ![r] = "inserted"]
  /\ UNCHANGED <<jFull, jNotes, jPointer, jFlight, jSeen>>
  /\ UNCHANGED <<lifeVars, demVars, chVars, chartCacheKeys, cacheMutex, cachePc,
                 locked, refreshed, callVars>>

\* record: updateFullState, then the notification; when the statement has
\* changed no row, updateFullState throws and record fails.
UpdateFullState(r) ==
  /\ jPc[r] = "inserted"
  /\ jFull' = updateFullState(jFull, jId[r])
  /\ IF jFull = 0 \/ jFull < jId[r]
     THEN /\ jNotes' = jNotes + 1
          /\ jPc' = [jPc EXCEPT ![r] = "idle"]
     ELSE /\ jNotes' = jNotes
          /\ jPc' = [jPc EXCEPT ![r] = "failed"]
  /\ UNCHANGED <<jSerial, jId, jPointer, jFlight, jSeen>>
  /\ UNCHANGED <<lifeVars, demVars, chVars, chartCacheKeys, cacheMutex, cachePc,
                 locked, refreshed, callVars>>

\* The observer's handler of a notification: queryEntries is sent with the
\* pointer as it is now.
Notified ==
  /\ jNotes > 0
  /\ jNotes' = jNotes - 1
  /\ jFlight' = Append(jFlight, queryEntries(jPointer, jSerial - 1))
  /\ UNCHANGED <<jSerial, jFull, jPc, jId, jPointer, jSeen>>
  /\ UNCHANGED <<lifeVars, demVars, chVars, chartCacheKeys, cacheMutex, cachePc,
                 locked, refreshed, callVars>>

\* The then() of a query: a non-empty result goes to yieldJournalEntries.
QueryResolves(i) ==
  /\ i \in 1..Len(jFlight)
  /\ LET y == yieldJournalEntries(jFlight[i], jPointer, jSeen)
     IN /\ jPointer' = y.pointer
        /\ jSeen' = y.seen
  /\ jFlight' = SubSeq(jFlight, 1, i - 1) \o SubSeq(jFlight, i + 1, Len(jFlight))
  /\ UNCHANGED <<jSerial, jFull, jPc, jId, jNotes>>
  /\ UNCHANGED <<lifeVars, demVars, chVars, chartCacheKeys, cacheMutex, cachePc,
                 locked, refreshed, callVars>>

JournalNext ==
  \/ \E r \in Recorders : InsertEntry(r)
  \/ \E r \in Recorders : UpdateFullState(r)
  \/ Notified
  \/ \E i \in 1..MaxEntries : QueryResolves(i)

JournalSpec == Init /\ [][JournalNext]_vars

\* ------------------------------------------------- the chart cache
\* refreshCache(chart) of createChart, of getChart after a miss and of send:
\* under cacheMutex the id is added to the Set of keys and cleanCache, when
\* the Set is larger than cacheSize, evicts its first key; evictCacheEntry
\* awaits wait() of that chart, which resolves at once when the chart's mutex
\* is not locked.
RefreshCache(c) ==
  /\ cachePc = "idle" /\ ~cacheMutex
  /\ LET keys == IF \E i \in 1..Len(chartCacheKeys) : chartCacheKeys[i] = c
                 THEN chartCacheKeys
                 ELSE Append(chartCacheKeys, c)
     IN IF Len(keys) > cacheSize
        THEN IF Head(keys) \in locked
             THEN /\ chartCacheKeys' = keys
                  /\ cacheMutex' = TRUE
                  /\ cachePc' = "waiting"
             ELSE /\ chartCacheKeys' = Tail(keys)
                  /\ UNCHANGED <<cacheMutex, cachePc>>
        ELSE /\ chartCacheKeys' = keys
             /\ UNCHANGED <<cacheMutex, cachePc>>
  /\ refreshed' = c
  /\ UNCHANGED <<locked, journalVars, callVars>>
  /\ UNCHANGED <<lifeVars, demVars, chVars>>

\* The mutex of the chart to evict is unlocked in time: the entry is deleted
\* and refreshCache releases cacheMutex.
EvictAfterWait ==
  /\ cachePc = "waiting" /\ Head(chartCacheKeys) \notin locked
  /\ chartCacheKeys' = Tail(chartCacheKeys)
  /\ cacheMutex' = FALSE
  /\ cachePc' = "idle"
  /\ UNCHANGED <<locked, refreshed, journalVars, callVars>>
  /\ UNCHANGED <<lifeVars, demVars, chVars>>

\* waitForUnlock times out: wait() throws, and so do evictCacheEntry,
\* cleanCache and refreshCache, before the release of cacheMutex.
WaitTimesOut ==
  /\ cachePc = "waiting" /\ Head(chartCacheKeys) \in locked
  /\ cachePc' = "idle"
  /\ UNCHANGED <<chartCacheKeys, cacheMutex, locked, refreshed, journalVars,
                 callVars>>
  /\ UNCHANGED <<lifeVars, demVars, chVars>>

\* A send or a destroy of chart c acquires the chart's mutex, or releases it.
ChartMutexChanges(c) ==
  /\ locked' = IF c \in locked THEN locked \ {c} ELSE locked \cup {c}
  /\ UNCHANGED <<chartCacheKeys, cacheMutex, cachePc, refreshed, journalVars,
                 callVars>>
  /\ UNCHANGED <<lifeVars, demVars, chVars>>

CacheNext ==
  \/ \E c \in CachedCharts : RefreshCache(c)
  \/ EvictAfterWait
  \/ WaitTimesOut
  \/ \E c \in CachedCharts : ChartMutexChanges(c)

CacheSpec == Init /\ [][CacheNext]_vars

\* ------------------------------------------------- external identifiers
\* The keys and values the user registers, drops and looks up.
ExtKeys == {"orderNo", "invoiceNo"}
ExtValues == {"42", "43"}

\* The INSERT of registerExternalId names four columns and passes four
\* values, and its VALUES list holds the placeholders $1, $2, $3 and a bare $.
InsertColumns == 4
InsertPlaceholders == 3

\* registerExternalId: the statement is rejected when it does not parse or
\* when the primary key (key, value) exists; else the row is inserted.
registerExternalId(rows, c, key, value) ==
  IF InsertPlaceholders # InsertColumns
       \/ \E r \in rows : r.key = key /\ r.value = value
  THEN [rows |-> rows, rejected |-> TRUE]
  ELSE [rows |-> rows \cup {[key |-> key, value |-> value, ref |-> c]},
        rejected |-> FALSE]

\* DELETE FROM "externalId" WHERE "key"=$1 AND "value"=$2
dropExternalId(rows, key, value) ==
  {r \in rows : ~(r.key = key /\ r.value = value)}

\* getChartByExternalIdentifier: result.rows[0] ?? null
getChartByExternalIdentifier(rows, key, value) ==
  IF \E r \in rows : r.key = key /\ r.value = value
  THEN (CHOOSE r \in rows : r.key = key /\ r.value = value).ref
  ELSE NoOne

\* XJog.registerExternalId returns the promise of the adapter's call.
RegisterExternalId(c, key, value) ==
  /\ xTable' = registerExternalId(xTable, c, key, value).rows
  /\ xCall' = [op |-> "register", ref |-> c, key |-> key, value |-> value,
               result |-> IF registerExternalId(xTable, c, key, value).rejected
                          THEN "rejected" ELSE "resolved"]
  /\ UNCHANGED <<xDrops, optIn, optOut>>
  /\ UNCHANGED <<lifeVars, demVars, chVars, journalVars, chartCacheKeys,
                 cacheMutex, cachePc, locked, refreshed>>

\* XJog.dropExternalId calls the adapter's dropExternalId without await and
\* without return: it resolves when the statement has been sent.
DropExternalId(key, value) ==
  /\ xDrops' = xDrops \cup {<<key, value>>}
  /\ xCall' = [op |-> "drop", ref |-> NoOne, key |-> key, value |-> value,
               result |-> "resolved"]
  /\ UNCHANGED <<xTable, optIn, optOut>>
  /\ UNCHANGED <<lifeVars, demVars, chVars, journalVars, chartCacheKeys,
                 cacheMutex, cachePc, locked, refreshed>>

\* The DELETE of an earlier dropExternalId runs.
DropStatementRuns(key, value) ==
  /\ <<key, value>> \in xDrops
  /\ xDrops' = xDrops \ {<<key, value>>}
  /\ xTable' = dropExternalId(xTable, key, value)
  /\ UNCHANGED <<xCall, optIn, optOut>>
  /\ UNCHANGED <<lifeVars, demVars, chVars, journalVars, chartCacheKeys,
                 cacheMutex, cachePc, locked, refreshed>>

\* XJog.getChartByExternalId: null when the adapter finds no row.
GetChartByExternalId(key, value) ==
  /\ xCall' = [op |-> "get", ref |-> NoOne, key |-> key, value |-> value,
               result |-> getChartByExternalIdentifier(xTable, key, value)]
  /\ UNCHANGED <<xTable, xDrops, optIn, optOut>>
  /\ UNCHANGED <<lifeVars, demVars, chVars, journalVars, chartCacheKeys,
                 cacheMutex, cachePc, locked, refreshed>>

ExternalIdNext ==
  \/ \E c \in Charts, key \in ExtKeys, value \in ExtValues :
       RegisterExternalId(c, key, value)
  \/ \E key \in ExtKeys, value \in ExtValues : DropExternalId(key, value)
  \/ \E key \in ExtKeys, value \in ExtValues : DropStatementRuns(key, value)
  \/ \E key \in ExtKeys, value \in ExtValues : GetChartByExternalId(key, value)

ExternalIdSpec == Init /\ [][ExternalIdNext]_vars

\* ------------------------------------------------- options
\* Defaults and minimums of the startup and deferredEvents options, in ms.
DefaultAdoptionFrequency == 2000
MinAdoptionFrequency == 10
DefaultGracePeriod == 30000
DefaultBatchSize == 100
MinBatchSize == 1
DefaultInterval == 30000
MinInterval == 50
DefaultLookAhead == 30000

\* A value the user passes as an option: undefined, NaN, Infinity or a finite
\* number.  Numbers are held in halves, so that 11.5 and 2.5 x 11 are exact.
Finite(halves) == [kind |-> "number", halves |-> halves]
Ms(n) == Finite(2 * n)
UserValues ==
  {[kind |-> "undefined", halves |-> 0], [kind |-> "NaN", halves |-> 0],
   [kind |-> "Infinity", halves |-> 0],
   Finite(-3), Ms(0), Ms(11), Finite(23), Ms(60000)}

\* pickIntegerOption: Number(value) of undefined is NaN; a value that is not
\* finite gives way to the default; Math.max with the minimum; Math.floor.
pickIntegerOption(value, defaultValue, minimumValue) ==
  LET numericValue == IF value.kind = "undefined"
                      THEN [kind |-> "NaN", halves |-> 0]
                      ELSE value
      unconstrainedValue == IF numericValue.kind = "number"
                            THEN numericValue.halves
                            ELSE defaultValue
      constrainedValue == IF minimumValue > unconstrainedValue
                          THEN minimumValue
                          ELSE unconstrainedValue
  IN (constrainedValue \div 2) * 2

\* resolveXJogStartupOptions: the minimum of gracePeriod is
\* 2.5 * adoptionFrequency.
resolveXJogStartupOptions(options) ==
  LET adoptionFrequency ==
        pickIntegerOption(options.adoptionFrequency,
                          Ms(DefaultAdoptionFrequency).halves,
                          Ms(MinAdoptionFrequency).halves)
      gracePeriod ==
        pickIntegerOption(options.gracePeriod, Ms(DefaultGracePeriod).halves,
                          (5 * adoptionFrequency) \div 2)
  IN [of |-> "startup", adoptionFrequency |-> adoptionFrequency,
      gracePeriod |-> gracePeriod]

\* resolveXJogDeferredEventOptions: the minimum of lookAhead is interval.
resolveXJogDeferredEventOptions(options) ==
  LET batchSize == pickIntegerOption(options.batchSize,
                                     Ms(DefaultBatchSize).halves,
                                     Ms(MinBatchSize).halves)
      interval == pickIntegerOption(options.interval,
                                    Ms(DefaultInterval).halves,
                                    Ms(MinInterval).halves)
      lookAhead == pickIntegerOption(options.lookAhead,
                                     Ms(DefaultLookAhead).halves, interval)
  IN [of |-> "deferredEvents", batchSize |-> batchSize,
      interval |-> interval, lookAhead |-> lookAhead]

\* new XJog(options): the startup options are resolved.
ResolveStartupOptions(af, gp) ==
  /\ optIn' = [of |-> "startup", adoptionFrequency |-> af, gracePeriod |-> gp]
  /\ optOut' = resolveXJogStartupOptions(optIn')
  /\ UNCHANGED <<xTable, xDrops, xCall>>
  /\ UNCHANGED <<lifeVars, demVars, chVars, journalVars, chartCacheKeys,
                 cacheMutex, cachePc, locked, refreshed>>

\* new XJog(options): the deferredEvents options are resolved.
ResolveDeferredEventOptions(bs, iv, la) ==
  /\ optIn' = [of |-> "deferredEvents", batchSize |-> bs, interval |-> iv,
               lookAhead |-> la]
  /\ optOut' = resolveXJogDeferredEventOptions(optIn')
  /\ UNCHANGED <<xTable, xDrops, xCall>>
  /\ UNCHANGED <<lifeVars, demVars, chVars, journalVars, chartCacheKeys,
                 cacheMutex, cachePc, locked, refreshed>>

OptionsNext ==
  \/ \E af \in UserValues, gp \in UserValues : ResolveStartupOptions(af, gp)
  \/ \E bs \in UserValues, iv \in UserValues, la \in UserValues :
       ResolveDeferredEventOptions(bs, iv, la)

OptionsSpec == Init /\ [][OptionsNext]_vars

\* ------------------------------------------------- properties
\* Engine e's send of this step transitions chart c and writes its row.
Persists(e, c) ==
  /\ ~dying[e]
  /\ \/ \E ev \in UserEvents : Send(e, c, ev)
     \/ \E r \in sched[e] : r.ref = c /\ Fire(e, r)

\* C1: for every chart at most one engine is the owner of an unpaused row of
\* it, whatever start, createChart, sendEvent and shutdown calls interleave.
SingleOwner ==
  \A c \in Charts :
    Cardinality({e \in Engines :
                   \E r \in charts : r.ref = c /\ r.ownerId = e /\ ~r.paused}) <= 1

\* A chart that A holds is owned, unpaused, by B while A is still running.
SingleOwnerWitness ==
  \E r \in charts :
    /\ r.ownerId = "B" /\ ~r.paused
    /\ cache["A"][r.ref] # "none"
    /\ started["A"] /\ ~dying["A"]

\* C2: an engine writes a chart row in send only when the row's ownerId is
\* its own id at the time of the write.
WritesOnlyOwnCharts ==
  [][\A e \in Engines, c \in Charts :
       Persists(e, c) => RowOf(charts, c).ownerId = e]_vars

\* Engine a has completed start() and owns a chart that another engine's
\* start has just paused, together with marking a dying.
Overthrown(a) ==
  /\ startPc[a] = "done"
  /\ instances[a] = "dying"
  /\ \E r \in charts : r.ownerId = a /\ r.paused

\* C3: an engine that is running and owns charts when another engine starts
\* eventually emits halt.
OverthrownEngineHalts == \A a \in Engines : Overthrown(a) ~> halted[a]

\* C4: the events that send actions deferred for a chart are delivered to it
\* at most once each, also across an adoption and its runStep.
NoDoubleFire == \A c \in Charts : delivered[c] <= scheduled[c]

\* C5: once the death note poll of an engine has seen its row dying, the
\* callback has been invoked exactly once.
DeathNoteCallsBack ==
  \A e \in Engines : deathNote[e] = "sawDying" => noteCalls[e] = 1

\* C6: the grace period timer expires gracePeriod after it was last started
\* by start or restarted by a pass that adopted something.
GraceExpiresOnTime == \A e \in Engines : quiet[e] <= GracePeriod

\* C7: forciblyAdoptCharts deletes exactly the ongoingActivities rows of the
\* paused charts, resumes every paused chart under the new owner, leaves the
\* other charts alone and returns exactly the paused refs.
ForcibleAdoptionExact ==
  [][\A e \in Engines :
       GraceExpire(e) =>
         /\ ongoing' = ongoing \ getPausedChartIds(charts)
         /\ charts' = {IF r.paused THEN [r EXCEPT !.paused = FALSE, !.ownerId = e]
                       ELSE r : r \in charts}
         /\ getPausedChartIds(charts) \subseteq forceTodo'[e]]_vars

\* C8: gentlyAdoptCharts changes owner and paused only of a chart that, when
\* it is updated, is paused and has no ongoingActivities row.
GentleAdoptionOnlyIdle ==
  [][\A e \in Engines, c \in Charts :
       (GentleUpdate(e) /\ c \in todo[e] /\ c \notin todo'[e]) =>
         (RowOf(charts, c).paused /\ ~isActivityRegistered(ongoing, c))]_vars

\* C9: after the runStep of an adopted chart, the activity that is active in
\* the chart's persisted state is registered in the adopting engine's
\* activity manager.
RunStepRestoresActivities ==
  [][\A e \in Engines, c \in Charts :
       (StartAdopted(e, c) \/ ForceStart(e, c)) =>
         (ActivityActive(RowOf(charts', c).state) => c \in acts'[e])]_vars

\* C10: a send never transitions and persists a chart whose row is paused.
PausedChartsNotWritten ==
  [][\A e \in Engines, c \in Charts :
       Persists(e, c) => ~RowOf(charts, c).paused]_vars

\* Engine e's sendEvent to chart c of this step, from a caller or from the
\* timer of a scheduled deferred event.
SendsTo(e, c, ev) ==
  \/ ev \in UserEvents /\ Send(e, c, ev)
  \/ \E r \in sched[e] : r.ref = c /\ r.event = ev /\ Fire(e, r)

ScheduledEventsAreLocked ==
  \A e \in Engines : \A r \in sched[e] :
    \E d \in deferred : d.id = r.id /\ d.lock = e

\* C15: the event of a deferred event row is delivered at most once overall.
EachRowDeliveredOnce == \A i \in DOMAIN dDelivered : dDelivered[i] <= 1

\* C16: a batch read returns at most batchSize rows, in due order, each due
\* before now + lookAhead, each unlocked at the moment the read locks it (so
\* that no other engine has received it) and locked by the reader afterwards.
BatchReadReserves ==
  [][\A e \in Engines :
       ReadUpdate(e) =>
         LET batch == returnedBatch(dTable, readIds[e], e)
         IN /\ Len(batch) <= BatchSize
            /\ \A i \in 1..Len(batch) :
                 /\ \E r \in dTable : r.id = batch[i].id /\ r.lock = NoOne
                 /\ batch[i].due < clock + LookAhead
                 /\ \E r \in dTable' : r.id = batch[i].id /\ r.lock = e
            /\ \A i, j \in 1..Len(batch) : i < j => DueBefore(batch[i], batch[j])]_vars

\* C18: every row has due = timestamp + delay, and no event is delivered
\* earlier than its delay after it was deferred.
DueIsCreatedPlusDelay ==
  [][/\ \A r \in dTable' : r.due = r.timestamp + r.delay
     /\ \A e \in Engines : \A t \in dTimers[e] :
          DFire(e, t) => clock >= t.row.timestamp + t.row.delay]_vars

\* C19: after cancel(eventId) has completed for a persisted event, the
\* event's row is deleted and no timer for it is armed.
CancelledEventsAreGone ==
  \A i \in dCancelled :
    /\ ~\E r \in dTable : r.id = i
    /\ \A e \in Engines : ~\E t \in dTimers[e] : t.row.id = i

\* C20: after cancelAllForChart(ref) no scheduled event of the chart is in
\* the list or has a timer armed.
CancelAllForChartCancels ==
  [][\A e \in Engines, c \in Charts :
       CancelAllForChart(e, c) =>
         /\ \A i \in 1..Len(dList'[e]) : dList'[e][i].ref # c
         /\ \A t \in dTimers'[e] : t.row.ref # c]_vars

\* C11: at most one send section of a chart is in progress at any time.
OneSectionPerChart ==
  \A k1, k2 \in Callers :
    (chPc[k1] = "hooks" /\ chPc[k2] = "hooks") => k1 = k2

\* C12: a send whose mutex acquisition times out starts the shutdown, does not
\* enter its section while the mutex is held, and ends with an error.
TimedOutSendFails ==
  [][\A k \in Callers :
       /\ MutexTimeout(k) => chDying'
       /\ (chTimedOut'[k] /\ chPc[k] # "hooks" /\ chPc'[k] = "hooks") =>
            chMutex[chObj[k]] = NoOne
       /\ (chTimedOut[k] /\ chPc[k] # "done" /\ chPc'[k] = "done") =>
            chRet'[k] = "error"]_vars

\* C13: when an update hook throws, the sender gets the error, the row keeps
\* its state and no change is broadcast.
HookFailureFailsSend ==
  [][\A k \in Callers :
       HookThrows(k) =>
         /\ chRet'[k] = "error"
         /\ chRow' = chRow
         /\ chChanges' = chChanges]_vars

\* C21: when the timer of a scheduled event has fired, the event is out of
\* the engine's list and its row is deleted, whether or not it was delivered.
FiredEventIsRemoved ==
  [][\A e \in Engines : \A t \in dTimers[e] :
       DFire(e, t) =>
         /\ \A i \in 1..Len(dList'[e]) : dList'[e][i].id # t.row.id
         /\ \A r \in dTable' : r.id # t.row.id]_vars

\* C30: once destroyChart has returned, the chart has no row, no deferred
\* event and no external identifier; once it has failed, none was removed.
DestroyIsAtomic ==
  \A c \in Charts :
    /\ dDestroy[c] = "returned" =>
         /\ c \notin dCharts /\ c \notin dExtIds
         /\ \A r \in dTable : r.ref # c
    /\ dDestroy[c] = "failed" => c \in dCharts /\ c \in dExtIds

\* C22: a transition that stops the activity of a chart whose activity is
\* registered on the engine leaves the activity neither in the engine's map
\* nor in ongoingActivities.
StopActivityStops ==
  [][\A e \in Engines, c \in Charts, ev \in Events :
       (/\ SendsTo(e, c, ev)
        /\ ~dying[e]
        /\ HasAction(transition(getChart(e, c), ev), "stop")
        /\ c \in acts[e]) =>
         (c \notin acts'[e] /\ c \notin ongoing')]_vars

\* C23: an engine that shuts down while no other engine has an instance row
\* eventually emits halt.
LastInstanceHalts ==
  \A e \in Engines :
    (dying[e] /\ \A o \in Engines \ {e} : instances[o] = "absent") ~> halted[e]

\* C24: an engine whose shutdown has completed has no row in instances.
HaltedInstanceHasNoRow ==
  \A e \in Engines : halted[e] => instances[e] = "absent"

\* C25: registerMachine registers nothing on an engine whose start() has
\* been called.
RegistrationRefusedAfterStart ==
  [][\A e \in Engines, m \in MachineIds :
       (RegisterMachine(e, m) /\ startPc[e] # "init") =>
         registeredMachines' = registeredMachines]_vars

\* C26: the changes broadcast for the chart are the changes journalled for
\* it, in the same order.
BroadcastsAreJournalled == chChanges = chJournal

\* C27: a subscriber of newJournalEntries gets ids in strictly increasing
\* order, none of them twice.
SubscriberSeesIncreasingIds ==
  \A i, j \in 1..Len(jSeen) : i < j => jSeen[i] < jSeen[j]

\* C28: the id in the chart's fullJournalStates row never decreases.
SnapshotNeverMovesBack == [][jFull' >= jFull]_vars

\* An updateFullState with an id below the stored one has run.
SnapshotNeverMovesBackWitness ==
  \E r \in Recorders : jPc[r] = "failed" /\ jId[r] < jFull

\* C29: when no cache mutation is in progress, the machine's cache holds at
\* most cacheSize charts.
CacheIsBounded == cachePc = "idle" => Len(chartCacheKeys) <= cacheSize

\* C38: releaseAll of one engine unlocks only the rows that engine had locked:
\* a row locked by another engine keeps its lock across the step.
ReleaseAllUnlocksOnlyOwn ==
  [][\A e \in Engines :
       releaseAll(e) =>
         \A r \in dTable : (r.lock # NoOne /\ r.lock # e) => r \in dTable']_vars

\* C34: every engine's in-memory list of scheduled deferred events is sorted
\* by (due ASC, id ASC): each element is due before the one after it.
ScheduledListIsSorted ==
  \A e \in Engines :
    \A i \in 1..(Len(dList[e]) - 1) : DueBefore(dList[e][i], dList[e][i + 1])

\* C36: when a send has failed in an update hook and released the chart's
\* mutex, the state held by the executor equals the state stored in the row.
FailedSendKeepsRowState ==
  [][\A k \in Callers :
       HookThrows(k) =>
         (chMutex'[chObj[k]] = NoOne => chState'[chObj[k]] = chRow')]_vars

\* C37: a send that passed the test of dying and wrote the new state to the
\* chart's row returns that new state, never null.
WrittenSendReturnsState ==
  [][\A e \in Engines, c \in Charts, ev \in UserEvents :
       (Send(e, c, ev) /\ ~dying[e]) =>
         LET res == send(e, c, ev, FALSE, deferred)
         IN res.moved => res.ret = res.chart]_vars

\* C33: the chart of the latest refreshCache call is at the
\* most-recently-used end of the cache keys, the end opposite to the one
\* cleanCache evicts from.
RefreshMovesToMostRecent ==
  (refreshed # "none" /\ chartCacheKeys # <<>>) =>
    chartCacheKeys[Len(chartCacheKeys)] = refreshed

\* C40: no journal entry is skipped: every id up to the observer's pointer
\* has been emitted to the subscriber of newJournalEntries.
NoJournalEntrySkipped ==
  \A id \in 1..jPointer : \E i \in 1..Len(jSeen) : jSeen[i] = id

\* C39: an engine that is flagged dying in the instances table, or that has
\* begun its shutdown, does not become the owner of another engine's chart.
DyingNeverAdopts ==
  [][\A e \in Engines :
       (instances[e] = "dying" \/ dying[e]) =>
         \A r \in charts' :
           r.ownerId = e =>
             \A q \in charts : q.ref = r.ref => q.ownerId = e]_vars

\* C35: when the persistence call of a batch read fails, the read loop is
\* re-armed: the engine's read timer is set after the failed iteration.
FailedReadIsRearmed ==
  [][\A e \in Engines : ReadFails(e) => readTimer'[e] # -1]_vars

\* C31: a registerExternalId of a key and value that no row holds resolves,
\* and a look-up of that key and value then finds the registered chart.
RegisteredIdIsFound ==
  [][\A c \in Charts, key \in ExtKeys, value \in ExtValues :
       (/\ RegisterExternalId(c, key, value)
        /\ getChartByExternalIdentifier(xTable, key, value) = NoOne) =>
         /\ xCall'.result = "resolved"
         /\ getChartByExternalIdentifier(xTable', key, value) = c]_vars

\* C32: whatever the user passes, the resolved options meet their minimums:
\* adoptionFrequency, batchSize and interval their fixed ones, gracePeriod
\* 2.5 x the resolved adoptionFrequency, lookAhead the resolved interval.
ResolvedOptionsMeetMinimums ==
  /\ optOut.of = "startup" =>
       /\ optOut.adoptionFrequency >= Ms(MinAdoptionFrequency).halves
       /\ 2 * optOut.gracePeriod >= 5 * optOut.adoptionFrequency
  /\ optOut.of = "deferredEvents" =>
       /\ optOut.batchSize >= Ms(MinBatchSize).halves
       /\ optOut.interval >= Ms(MinInterval).halves
       /\ optOut.lookAhead >= optOut.interval

============================================================================
